---- MODULE Spec2Model ----
(***************************************************************************)
(* A model of the heatshrink encoder (src/unnamed/part_000, the encoder    *)
(* translation unit) and decoder (src/heatshrink_decoder.c): two           *)
(* sink/poll/finish state machines that share a bit-packed LZSS stream.    *)
(* Each API function is an operator from the instance (a record holding    *)
(* the struct's fields) and the call's arguments to the new instance and   *)
(* the call's results; each action is one API call made by a caller.       *)
(***************************************************************************)
EXTENDS Integers, Sequences, FiniteSets, TLC

VARIABLES hse, hsd, X, sunk, comp, dsunk, decomp, call, hist, pc

vars == <<hse, hsd, X, sunk, comp, dsunk, decomp, call, hist, pc>>

(***************************************************************************)
(* Bounds of the model (not program constants).                            *)
(***************************************************************************)
\* longest input of the exhaustive family (every byte string over Alphabet)
MaxLen == 3
\* longest input of the periodic family (reaches two backlog shifts at W = 4)
MaxLongLen == 26
\* the capacity of a large output buffer, and the size of a large sink
BigCap == 64
\* turns after which a poll loop is cut (its result is then "RUNNING")
MaxPollSteps == 1000

\* byte values the inputs are made of
Alphabet == {0, 97}

(***************************************************************************)
(* Configuration limits (heatshrink's configuration header is not part of  *)
(* the sources; the limits are the ones the specification states).         *)
(***************************************************************************)
HEATSHRINK_MIN_WINDOW_BITS == 4
HEATSHRINK_MAX_WINDOW_BITS == 15
HEATSHRINK_MIN_LOOKAHEAD_BITS == 3
HEATSHRINK_LITERAL_MARKER == 1
HEATSHRINK_BACKREF_MARKER == 0

Min(a, b) == IF a < b THEN a ELSE b
Max(a, b) == IF a > b THEN a ELSE b
\* F applied to the value of v, v being computed once
Let(v, F(_)) == CHOOSE y \in {F(x) : x \in {v}} : TRUE
U8(x) == x % 256
U16(x) == x % 65536
\* bit i of v (v >= 0)
Bit(v, i) == (v \div (2 ^ i)) % 2
\* v | mask, and v & mask # 0, for a single-bit mask
OrMask(v, mask) == IF (v \div mask) % 2 = 1 THEN v ELSE v + mask
AndMask(v, mask) == mask # 0 /\ (v \div mask) % 2 = 1

(***************************************************************************)
(* Encoder: states, flags, instance.                                       *)
(***************************************************************************)
HSES_NOT_FULL == "HSES_NOT_FULL"
HSES_FILLED == "HSES_FILLED"
HSES_SEARCH == "HSES_SEARCH"
HSES_YIELD_TAG_BIT == "HSES_YIELD_TAG_BIT"
HSES_YIELD_LITERAL == "HSES_YIELD_LITERAL"
HSES_YIELD_BR_INDEX == "HSES_YIELD_BR_INDEX"
HSES_YIELD_BR_LENGTH == "HSES_YIELD_BR_LENGTH"
HSES_SAVE_BACKLOG == "HSES_SAVE_BACKLOG"
HSES_FLUSH_BITS == "HSES_FLUSH_BITS"
HSES_DONE == "HSES_DONE"

FLAG_IS_FINISHING == "FLAG_IS_FINISHING"
FLAG_HAS_LITERAL == "FLAG_HAS_LITERAL"
FLAG_ON_FINAL_LITERAL == "FLAG_ON_FINAL_LITERAL"
FLAG_BACKLOG_IS_PARTIAL == "FLAG_BACKLOG_IS_PARTIAL"
FLAG_BACKLOG_IS_FILLED == "FLAG_BACKLOG_IS_FILLED"

\* (uint16_t)-1
MATCH_NOT_FOUND == 65535

get_input_buffer_size(h) == U16(2 ^ h.window_sz2)
get_input_offset(h) == get_input_buffer_size(h)
get_lookahead_size(h) == U16(2 ^ h.lookahead_sz2)

is_finishing(h) == FLAG_IS_FINISHING \in h.flags
backlog_is_partial(h) == FLAG_BACKLOG_IS_PARTIAL \in h.flags
backlog_is_filled(h) == FLAG_BACKLOG_IS_FILLED \in h.flags
on_final_literal(h) == FLAG_ON_FINAL_LITERAL \in h.flags
has_literal(h) == FLAG_HAS_LITERAL \in h.flags

\* heatshrink_encoder_reset that leaves the flags as they are
heatshrink_encoder_reset_keep_flags(h) ==
    [h EXCEPT !.buffer = [i \in 0 .. (2 * (2 ^ h.window_sz2)) - 1 |-> 0],
              !.input_size = 0,
              !.state = HSES_NOT_FULL,
              !.match_scan_index = 0,
              !.bit_index = 128,
              !.current_byte = 0,
              !.match_length = 0,
              !.outgoing_bits = 0,
              !.outgoing_bits_count = 0]

\* heatshrink_encoder_reset: every mutable field but match_pos, which reset
\* leaves as it is (here: as allocated, read only after a search has set it)
heatshrink_encoder_reset(h) ==
    [h EXCEPT !.buffer = [i \in 0 .. (2 * (2 ^ h.window_sz2)) - 1 |-> 0],
              !.input_size = 0,
              !.state = HSES_NOT_FULL,
              !.match_scan_index = 0,
              !.flags = {},
              !.bit_index = 128,
              !.current_byte = 0,
              !.match_length = 0,
              !.outgoing_bits = 0,
              !.outgoing_bits_count = 0]

\* heatshrink_encoder_alloc: "NULL" when the parameters are out of bounds
heatshrink_encoder_alloc(window_sz2, lookahead_sz2) ==
    IF \/ window_sz2 < HEATSHRINK_MIN_WINDOW_BITS
       \/ window_sz2 > HEATSHRINK_MAX_WINDOW_BITS
       \/ lookahead_sz2 < HEATSHRINK_MIN_LOOKAHEAD_BITS
       \/ lookahead_sz2 > window_sz2
    THEN "NULL"
    ELSE heatshrink_encoder_reset(
           [window_sz2 |-> window_sz2, lookahead_sz2 |-> lookahead_sz2,
            buffer |-> <<>>, input_size |-> 0, state |-> HSES_NOT_FULL,
            match_scan_index |-> 0, flags |-> {}, bit_index |-> 0,
            current_byte |-> 0, match_length |-> 0, match_pos |-> 0,
            outgoing_bits |-> 0, outgoing_bits_count |-> 0])

\* an instance of the build with HEATSHRINK_USE_INDEX has the search_index
\* member
use_index(h) == "search_index" \in DOMAIN h

\* what a word of memory holds that was allocated and never written
IndexJunk == {0, MATCH_NOT_FOUND}

\* heatshrink_encoder_alloc of the build with HEATSHRINK_USE_INDEX: the index
\* is allocated, not initialised (every entry holds junk).  index_diverged
\* records that some search so far returned something else than the linear
\* scan returns on the same buffer and arguments.
heatshrink_encoder_alloc_USE_INDEX(window_sz2, lookahead_sz2, junk) ==
    LET h == heatshrink_encoder_alloc(window_sz2, lookahead_sz2)
    IN IF \/ window_sz2 < HEATSHRINK_MIN_WINDOW_BITS
          \/ window_sz2 > HEATSHRINK_MAX_WINDOW_BITS
          \/ lookahead_sz2 < HEATSHRINK_MIN_LOOKAHEAD_BITS
          \/ lookahead_sz2 > window_sz2
       THEN "NULL"
       ELSE [window_sz2 |-> h.window_sz2, lookahead_sz2 |-> h.lookahead_sz2,
             buffer |-> h.buffer, input_size |-> h.input_size,
             state |-> h.state, match_scan_index |-> h.match_scan_index,
             flags |-> h.flags, bit_index |-> h.bit_index,
             current_byte |-> h.current_byte, match_length |-> h.match_length,
             match_pos |-> h.match_pos, outgoing_bits |-> h.outgoing_bits,
             outgoing_bits_count |-> h.outgoing_bits_count,
             search_index |-> [i \in 0 .. (2 * (2 ^ window_sz2)) - 1 |-> junk],
             index_diverged |-> FALSE]

(***************************************************************************)
(* heatshrink_encoder_sink(hse, in_buf, size, &input_size), in_buf a       *)
(* sequence of bytes.  accepted is what the call stores through its last   *)
(* argument; no byte is taken when the call returns an error.              *)
(***************************************************************************)
\* heatshrink_encoder_sink without the tests of the flag and of the state
heatshrink_encoder_sink_no_guard(h, in_buf) ==
    LET size == Len(in_buf)
        write_offset == U16(get_input_offset(h) + h.input_size)
        rem == U16(get_input_buffer_size(h) - h.input_size)
        cp_sz == IF rem < size THEN rem ELSE size
        copied == [i \in 0 .. (2 * (2 ^ h.window_sz2)) - 1 |->
                     IF i >= write_offset /\ i < write_offset + cp_sz
                     THEN in_buf[i - write_offset + 1]
                     ELSE h.buffer[i]]
    IN [hse |-> [h EXCEPT !.buffer = copied,
                          !.input_size = U16(h.input_size + cp_sz),
                          !.state = IF cp_sz = rem THEN HSES_FILLED
                                    ELSE h.state],
        res |-> "HSER_SINK_OK",
        accepted |-> cp_sz]

\* heatshrink_encoder_sink without the test of the state
heatshrink_encoder_sink_any_state(h, in_buf) ==
    IF is_finishing(h)
    THEN [hse |-> h, res |-> "HSER_SINK_ERROR_MISUSE", accepted |-> 0]
    ELSE LET size == Len(in_buf)
             write_offset == U16(get_input_offset(h) + h.input_size)
             rem == U16(get_input_buffer_size(h) - h.input_size)
             cp_sz == IF rem < size THEN rem ELSE size
             copied == [i \in 0 .. (2 * (2 ^ h.window_sz2)) - 1 |->
                          IF i >= write_offset /\ i < write_offset + cp_sz
                          THEN in_buf[i - write_offset + 1]
                          ELSE h.buffer[i]]
         IN [hse |-> [h EXCEPT !.buffer = copied,
                               !.input_size = U16(h.input_size + cp_sz),
                               !.state = IF cp_sz = rem THEN HSES_FILLED
                                         ELSE h.state],
             res |-> "HSER_SINK_OK",
             accepted |-> cp_sz]

\* heatshrink_encoder_sink treating a full active half as misuse
heatshrink_encoder_sink_full_is_misuse(h, in_buf) ==
    IF is_finishing(h) \/ h.state # HSES_NOT_FULL
          \/ h.input_size = get_input_buffer_size(h)
    THEN [hse |-> h, res |-> "HSER_SINK_ERROR_MISUSE", accepted |-> 0]
    ELSE LET size == Len(in_buf)
             write_offset == U16(get_input_offset(h) + h.input_size)
             rem == U16(get_input_buffer_size(h) - h.input_size)
             cp_sz == IF rem < size THEN rem ELSE size
             copied == [i \in 0 .. (2 * (2 ^ h.window_sz2)) - 1 |->
                          IF i >= write_offset /\ i < write_offset + cp_sz
                          THEN in_buf[i - write_offset + 1]
                          ELSE h.buffer[i]]
         IN [hse |-> [h EXCEPT !.buffer = copied,
                               !.input_size = U16(h.input_size + cp_sz),
                               !.state = IF cp_sz = rem THEN HSES_FILLED
                                         ELSE h.state],
             res |-> "HSER_SINK_OK",
             accepted |-> cp_sz]

\* heatshrink_encoder_sink that moves to FILLED only when input was left over
heatshrink_encoder_sink_late_fill(h, in_buf) ==
    IF is_finishing(h) \/ h.state # HSES_NOT_FULL
    THEN [hse |-> h, res |-> "HSER_SINK_ERROR_MISUSE", accepted |-> 0]
    ELSE LET size == Len(in_buf)
             write_offset == U16(get_input_offset(h) + h.input_size)
             rem == U16(get_input_buffer_size(h) - h.input_size)
             cp_sz == IF rem < size THEN rem ELSE size
             copied == [i \in 0 .. (2 * (2 ^ h.window_sz2)) - 1 |->
                          IF i >= write_offset /\ i < write_offset + cp_sz
                          THEN in_buf[i - write_offset + 1]
                          ELSE h.buffer[i]]
         IN [hse |-> [h EXCEPT !.buffer = copied,
                               !.input_size = U16(h.input_size + cp_sz),
                               !.state = IF rem < size THEN HSES_FILLED
                                         ELSE h.state],
             res |-> "HSER_SINK_OK",
             accepted |-> cp_sz]

heatshrink_encoder_sink(h, in_buf) ==
    IF is_finishing(h)
    THEN [hse |-> h, res |-> "HSER_SINK_ERROR_MISUSE", accepted |-> 0]
    ELSE IF h.state # HSES_NOT_FULL
    THEN [hse |-> h, res |-> "HSER_SINK_ERROR_MISUSE", accepted |-> 0]
    ELSE Let(in_buf, LAMBDA src :
           LET size == Len(src)
               write_offset == U16(get_input_offset(h) + h.input_size)
               ibs == get_input_buffer_size(h)
               rem == U16(ibs - h.input_size)
               cp_sz == IF rem < size THEN rem ELSE size
               copied == [i \in 0 .. (2 * (2 ^ h.window_sz2)) - 1 |->
                            IF i >= write_offset /\ i < write_offset + cp_sz
                            THEN src[i - write_offset + 1]
                            ELSE h.buffer[i]]
           IN [hse |-> [h EXCEPT !.buffer = copied,
                                 !.input_size = U16(h.input_size + cp_sz),
                                 !.state = IF cp_sz = rem THEN HSES_FILLED
                                           ELSE h.state],
               res |-> "HSER_SINK_OK",
               accepted |-> cp_sz])

can_take_byte(oi) == Len(oi.buf) < oi.buf_size

(***************************************************************************)
(* push_bits: COUNT (max 8) bits of BITS, most significant first, into     *)
(* current_byte under the mask bit_index; a completed byte goes to the     *)
(* output buffer.                                                          *)
(***************************************************************************)
\* one turn of push_bits' loop: bit i of BITS
push_bits_step(h, i, bits, oi) ==
    LET cb == IF Bit(bits, i) = 1
              THEN OrMask(h.current_byte, h.bit_index)
              ELSE h.current_byte
        bi == h.bit_index \div 2
    IN IF bi = 0
       THEN [hse |-> [h EXCEPT !.bit_index = 128, !.current_byte = 0],
             oi |-> [oi EXCEPT !.buf = Append(oi.buf, cb)]]
       ELSE [hse |-> [h EXCEPT !.bit_index = bi, !.current_byte = cb],
             oi |-> oi]

RECURSIVE push_bits_from(_, _, _, _)
push_bits_from(h, i, bits, oi) ==
    IF i < 0 THEN [hse |-> h, oi |-> oi]
    ELSE Let(push_bits_step(h, i, bits, oi),
             LAMBDA n : push_bits_from(n.hse, i - 1, bits, n.oi))

push_bits(h, count, bits, oi) == push_bits_from(h, count - 1, bits, oi)

\* add_tag_bit spending a whole byte on the tag
add_tag_bit_byte(h, oi, tag) == push_bits(h, 8, tag, oi)

add_tag_bit(h, oi, tag) == push_bits(h, 1, tag, oi)

\* push_outgoing_bits sending the low 8 bits of a longer field first
push_outgoing_bits_low_first(h, oi) ==
    LET count == IF h.outgoing_bits_count > 8 THEN 8 ELSE h.outgoing_bits_count
        bits == U8(h.outgoing_bits)
    IN Let(push_bits(h, count, bits, oi),
           LAMBDA r :
             [hse |-> [r.hse EXCEPT !.outgoing_bits_count =
                                       U8(h.outgoing_bits_count - count)],
              oi |-> r.oi,
              count |-> count])

\* push_outgoing_bits: the top (at most 8) bits still staged; returns count
push_outgoing_bits(h, oi) ==
    LET count == IF h.outgoing_bits_count > 8 THEN 8 ELSE h.outgoing_bits_count
        bits == IF h.outgoing_bits_count > 8
                THEN U8(h.outgoing_bits \div (2 ^ (h.outgoing_bits_count - 8)))
                ELSE U8(h.outgoing_bits)
    IN Let(push_bits(h, count, bits, oi),
           LAMBDA r :
             [hse |-> [r.hse EXCEPT !.outgoing_bits_count =
                                       U8(h.outgoing_bits_count - count)],
              oi |-> r.oi,
              count |-> count])

push_literal_byte(h, oi) ==
    LET processed_offset == U16(h.match_scan_index - 1)
        input_offset == U16(get_input_offset(h) + processed_offset)
        c == h.buffer[input_offset]
    IN push_bits(h, 8, c, oi)

(***************************************************************************)
(* find_longest_match, the linear scan (HEATSHRINK_USE_INDEX off): the     *)
(* longest match for buf[end .. end+maxlen) starting in [start, end-1],    *)
(* candidates taken from end-1 downward.  Returns the distance and the     *)
(* length, or MATCH_NOT_FOUND.                                             *)
(***************************************************************************)
RECURSIVE match_len_at(_, _, _, _, _)
match_len_at(buf, pos, needle_index, maxlen, len) ==
    IF len < maxlen /\ buf[pos + len] = buf[needle_index + len]
    THEN match_len_at(buf, pos, needle_index, maxlen, len + 1)
    ELSE len

break_even_point == 2

\* scan_candidates in which a later candidate of the same length replaces
\* the earlier one
RECURSIVE scan_candidates_last_wins(_, _, _, _, _, _, _)
scan_candidates_last_wins(buf, pos, start, needle_index, maxlen, match_maxlen, match_index) ==
    Let(match_len_at(buf, pos, needle_index, maxlen, 0),
        LAMBDA len :
          IF len > break_even_point /\ len >= match_maxlen
          THEN IF pos = start
               THEN [match_maxlen |-> len, match_index |-> pos]
               ELSE scan_candidates_last_wins(buf, U16(pos - 1), start,
                                              needle_index, maxlen, len, pos)
          ELSE IF pos = start
               THEN [match_maxlen |-> match_maxlen, match_index |-> match_index]
               ELSE scan_candidates_last_wins(buf, U16(pos - 1), start,
                                              needle_index, maxlen,
                                              match_maxlen, match_index))

\* scan_candidates without the break-even point: any common length counts
RECURSIVE scan_candidates_any_length(_, _, _, _, _, _, _)
scan_candidates_any_length(buf, pos, start, needle_index, maxlen, match_maxlen, match_index) ==
    Let(match_len_at(buf, pos, needle_index, maxlen, 0),
        LAMBDA len :
          IF len > match_maxlen
          THEN IF len = maxlen \/ pos = start
               THEN [match_maxlen |-> len, match_index |-> pos]
               ELSE scan_candidates_any_length(buf, U16(pos - 1), start,
                                               needle_index, maxlen, len, pos)
          ELSE IF pos = start
               THEN [match_maxlen |-> match_maxlen, match_index |-> match_index]
               ELSE scan_candidates_any_length(buf, U16(pos - 1), start,
                                               needle_index, maxlen,
                                               match_maxlen, match_index))

RECURSIVE scan_candidates(_, _, _, _, _, _, _)
scan_candidates(buf, pos, start, needle_index, maxlen, match_maxlen, match_index) ==
    Let(match_len_at(buf, pos, needle_index, maxlen, 0),
        LAMBDA len :
          IF len > break_even_point /\ len > match_maxlen
          THEN IF len = maxlen \/ pos = start
               THEN [match_maxlen |-> len, match_index |-> pos]
               ELSE scan_candidates(buf, U16(pos - 1), start, needle_index,
                                    maxlen, len, pos)
          ELSE IF pos = start
               THEN [match_maxlen |-> match_maxlen, match_index |-> match_index]
               ELSE scan_candidates(buf, U16(pos - 1), start, needle_index,
                                    maxlen, match_maxlen, match_index))

\* what stands for a match_index and a match_pos when the loop of the
\* search never ends
NeverReturns == -1

\* the loop of the build with HEATSHRINK_USE_INDEX: the candidates are the
\* positions on the chain index[end], index[index[end]], ...  An entry
\* that holds its own position (junk: a built chain goes down) keeps the
\* loop at that position for ever.
RECURSIVE walk_index(_, _, _, _, _, _, _)
walk_index(h, pos, start, needle_index, maxlen, match_maxlen, match_index) ==
    IF pos = MATCH_NOT_FOUND
    THEN [match_maxlen |-> match_maxlen, match_index |-> match_index]
    ELSE Let(match_len_at(h.buffer, pos, needle_index, maxlen, 0),
             LAMBDA len :
               LET better == len > break_even_point /\ len > match_maxlen
                   mm == IF better THEN len ELSE match_maxlen
                   mi == IF better THEN pos ELSE match_index
                   next == h.search_index[pos]
               IN IF (better /\ len = maxlen) \/ next < start
                  THEN [match_maxlen |-> mm, match_index |-> mi]
                  ELSE IF next = pos
                  THEN [match_maxlen |-> mm, match_index |-> NeverReturns]
                  ELSE walk_index(h, next, start, needle_index, maxlen, mm, mi))

\* find_longest_match as the build with (indexed) or without the index has it
find_longest_match_build(h, start, end, maxlen, indexed) ==
    IF start = end THEN [match_pos |-> MATCH_NOT_FOUND, match_length |-> 0]
    ELSE IF indexed /\ h.search_index[end] < start
    THEN [match_pos |-> MATCH_NOT_FOUND, match_length |-> 0]
    ELSE Let(IF indexed
             THEN walk_index(h, h.search_index[end], start, end, maxlen,
                             0, MATCH_NOT_FOUND)
             ELSE scan_candidates(h.buffer, U16(end - 1), start, end, maxlen,
                                  0, MATCH_NOT_FOUND),
             LAMBDA r :
               IF r.match_index = NeverReturns
               THEN [match_pos |-> NeverReturns, match_length |-> 0]
               ELSE IF r.match_maxlen > 0
               THEN [match_pos |-> U16(end - r.match_index),
                     match_length |-> r.match_maxlen]
               ELSE [match_pos |-> MATCH_NOT_FOUND, match_length |-> 0])

find_longest_match(h, start, end, maxlen) ==
    find_longest_match_build(h, start, end, maxlen, use_index(h))

\* one turn of do_indexing's loop; s is [index, last]
do_indexing_step(data, s, i) ==
    [index |-> [s.index EXCEPT ![i] = s.last[data[i]]],
     last |-> [s.last EXCEPT ![data[i]] = i]]

\* the turns for lo <= i < hi
RECURSIVE do_indexing_loop(_, _, _, _)
do_indexing_loop(data, s, lo, hi) ==
    IF lo >= hi THEN s
    ELSE IF hi = lo + 1 THEN do_indexing_step(data, s, lo)
    ELSE Let(do_indexing_loop(data, s, lo, lo + ((hi - lo) \div 2)),
             LAMBDA m : do_indexing_loop(data, m, lo + ((hi - lo) \div 2), hi))

\* do_indexing: index[i] is the last offset before i that holds the byte at
\* i; nothing to build without HEATSHRINK_USE_INDEX.  input_sz and end are
\* uint16_t.
do_indexing(h) ==
    IF ~use_index(h) THEN h
    ELSE LET buf_sz == get_input_buffer_size(h)
             input_sz == U16(2 * buf_sz)
             end == U16(get_input_offset(h) + h.input_size)
             cleared == [i \in 0 .. (2 * (2 ^ h.window_sz2)) - 1 |->
                           IF i < input_sz THEN MATCH_NOT_FOUND
                           ELSE h.search_index[i]]
         IN Let(do_indexing_loop(h.buffer,
                                 [index |-> cleared,
                                  last |-> [v \in 0 .. 255 |-> MATCH_NOT_FOUND]],
                                 0, end),
                LAMBDA s : [h EXCEPT !.search_index = s.index])

(***************************************************************************)
(* The state functions: each returns the instance (and the output buffer)  *)
(* as the function leaves it and st, the state it returns.                 *)
(***************************************************************************)
st_step_search(h) ==
    LET window_length == get_input_buffer_size(h)
        lookahead_sz == get_lookahead_size(h)
        msi == h.match_scan_index
        fin == is_finishing(h)
    IN IF msi >= h.input_size - (IF fin THEN 0 ELSE lookahead_sz)
       THEN [hse |-> h, st |-> HSES_SAVE_BACKLOG]
       ELSE LET input_offset == get_input_offset(h)
                end == U16(input_offset + msi)
                start == IF backlog_is_filled(h)
                         THEN U16(end - window_length + 1)
                         ELSE IF backlog_is_partial(h)
                         THEN (IF U16(end - window_length + 1) < lookahead_sz
                               THEN lookahead_sz
                               ELSE U16(end - window_length + 1))
                         ELSE input_offset
                max_possible == IF h.input_size - msi < lookahead_sz
                                THEN U16(h.input_size - msi)
                                ELSE lookahead_sz
                \* the instance with index_diverged brought up to date
                noted == IF use_index(h)
                         THEN [h EXCEPT !.index_diverged =
                                 h.index_diverged
                                 \/ find_longest_match_build(h, start, end,
                                                             max_possible, TRUE)
                                    # find_longest_match_build(h, start, end,
                                                               max_possible, FALSE)]
                         ELSE h
            IN Let(find_longest_match(h, start, end, max_possible),
                   LAMBDA m :
                     IF m.match_pos = NeverReturns
                     THEN \* the call is still in find_longest_match
                          [hse |-> h, st |-> HSES_SEARCH]
                     ELSE IF m.match_pos = MATCH_NOT_FOUND
                     THEN [hse |-> [noted EXCEPT !.match_scan_index = U16(msi + 1),
                                                 !.flags = h.flags \cup {FLAG_HAS_LITERAL},
                                                 !.match_length = 0],
                           st |-> HSES_YIELD_TAG_BIT]
                     ELSE [hse |-> [noted EXCEPT !.match_pos = m.match_pos,
                                                 !.match_length = m.match_length],
                           st |-> HSES_YIELD_TAG_BIT])

st_yield_tag_bit(h, oi) ==
    IF can_take_byte(oi)
    THEN IF h.match_length = 0
         THEN Let(add_tag_bit(h, oi, HEATSHRINK_LITERAL_MARKER),
                  LAMBDA r : [hse |-> r.hse, oi |-> r.oi, st |-> HSES_YIELD_LITERAL])
         ELSE Let(add_tag_bit(h, oi, HEATSHRINK_BACKREF_MARKER),
                  LAMBDA r :
                    [hse |-> [r.hse EXCEPT !.outgoing_bits = U16(h.match_pos - 1),
                                           !.outgoing_bits_count = h.window_sz2],
                     oi |-> r.oi, st |-> HSES_YIELD_BR_INDEX])
    ELSE [hse |-> h, oi |-> oi, st |-> HSES_YIELD_TAG_BIT]

\* st_yield_literal that goes on when the output buffer is full
st_yield_literal_no_suspend(h, oi) ==
    IF can_take_byte(oi)
    THEN Let(push_literal_byte(h, oi),
             LAMBDA r :
               [hse |-> [r.hse EXCEPT !.flags = r.hse.flags \ {FLAG_HAS_LITERAL}],
                oi |-> r.oi,
                st |-> IF on_final_literal(r.hse) THEN HSES_FLUSH_BITS
                       ELSE IF r.hse.match_length > 0 THEN HSES_YIELD_TAG_BIT
                       ELSE HSES_SEARCH])
    ELSE [hse |-> h, oi |-> oi, st |-> HSES_SEARCH]

\* st_yield_literal that leaves FLAG_HAS_LITERAL set
st_yield_literal_keep_flag(h, oi) ==
    IF can_take_byte(oi)
    THEN Let(push_literal_byte(h, oi),
             LAMBDA r :
               [hse |-> r.hse,
                oi |-> r.oi,
                st |-> IF on_final_literal(r.hse) THEN HSES_FLUSH_BITS
                       ELSE IF r.hse.match_length > 0 THEN HSES_YIELD_TAG_BIT
                       ELSE HSES_SEARCH])
    ELSE [hse |-> h, oi |-> oi, st |-> HSES_YIELD_LITERAL]

st_yield_literal(h, oi) ==
    IF can_take_byte(oi)
    THEN Let(push_literal_byte(h, oi),
             LAMBDA r :
               [hse |-> [r.hse EXCEPT !.flags = r.hse.flags \ {FLAG_HAS_LITERAL}],
                oi |-> r.oi,
                st |-> IF on_final_literal(r.hse) THEN HSES_FLUSH_BITS
                       ELSE IF r.hse.match_length > 0 THEN HSES_YIELD_TAG_BIT
                       ELSE HSES_SEARCH])
    ELSE [hse |-> h, oi |-> oi, st |-> HSES_YIELD_LITERAL]

st_yield_br_index(h, oi) ==
    IF can_take_byte(oi)
    THEN Let(push_outgoing_bits(h, oi),
             LAMBDA r :
               IF r.count > 0
               THEN [hse |-> r.hse, oi |-> r.oi, st |-> HSES_YIELD_BR_INDEX]
               ELSE [hse |-> [r.hse EXCEPT
                                !.outgoing_bits = U16(h.match_length - 1),
                                !.outgoing_bits_count = h.lookahead_sz2],
                     oi |-> r.oi, st |-> HSES_YIELD_BR_LENGTH])
    ELSE [hse |-> h, oi |-> oi, st |-> HSES_YIELD_BR_INDEX]

\* st_yield_br_length that steps one byte past the match
st_yield_br_length_overshoot(h, oi) ==
    IF can_take_byte(oi)
    THEN Let(push_outgoing_bits(h, oi),
             LAMBDA r :
               IF r.count > 0
               THEN [hse |-> r.hse, oi |-> r.oi, st |-> HSES_YIELD_BR_LENGTH]
               ELSE [hse |-> [r.hse EXCEPT
                                !.match_scan_index =
                                    U16(h.match_scan_index + h.match_length + 1),
                                !.match_length = 0],
                     oi |-> r.oi, st |-> HSES_SEARCH])
    ELSE [hse |-> h, oi |-> oi, st |-> HSES_YIELD_BR_LENGTH]

st_yield_br_length(h, oi) ==
    IF can_take_byte(oi)
    THEN Let(push_outgoing_bits(h, oi),
             LAMBDA r :
               IF r.count > 0
               THEN [hse |-> r.hse, oi |-> r.oi, st |-> HSES_YIELD_BR_LENGTH]
               ELSE [hse |-> [r.hse EXCEPT
                                !.match_scan_index =
                                    U16(h.match_scan_index + h.match_length),
                                !.match_length = 0],
                     oi |-> r.oi, st |-> HSES_SEARCH])
    ELSE [hse |-> h, oi |-> oi, st |-> HSES_YIELD_BR_LENGTH]

\* save_backlog that updates the fields and leaves the buffer where it is
save_backlog_no_move(h) ==
    [h EXCEPT !.flags = IF backlog_is_partial(h)
                        THEN h.flags \cup {FLAG_BACKLOG_IS_FILLED}
                        ELSE h.flags \cup {FLAG_BACKLOG_IS_PARTIAL},
              !.match_scan_index = 0,
              !.input_size = U16(h.input_size - h.match_scan_index)]

\* save_backlog: memmove the buffer down by match_scan_index
save_backlog(h) ==
    LET input_buf_sz == get_input_buffer_size(h)
        msi == h.match_scan_index
        rem == U16(input_buf_sz - msi)
        shift_sz == U16(input_buf_sz + rem)
        src == input_buf_sz - rem
        moved == [i \in 0 .. (2 * (2 ^ h.window_sz2)) - 1 |->
                    IF i < shift_sz THEN h.buffer[src + i] ELSE h.buffer[i]]
    IN [h EXCEPT !.buffer = moved,
                 !.flags = IF backlog_is_partial(h)
                           THEN h.flags \cup {FLAG_BACKLOG_IS_FILLED}
                           ELSE h.flags \cup {FLAG_BACKLOG_IS_PARTIAL},
                 !.match_scan_index = 0,
                 !.input_size = U16(h.input_size - (input_buf_sz - rem))]

st_save_backlog(h) ==
    IF is_finishing(h)
    THEN IF has_literal(h)
         THEN [hse |-> [h EXCEPT !.flags = h.flags \cup {FLAG_ON_FINAL_LITERAL}],
               st |-> HSES_YIELD_TAG_BIT]
         ELSE [hse |-> h, st |-> HSES_FLUSH_BITS]
    ELSE [hse |-> save_backlog(h), st |-> HSES_NOT_FULL]

st_flush_bit_buffer(h, oi) ==
    IF h.bit_index = 128
    THEN [hse |-> h, oi |-> oi, st |-> HSES_DONE]
    ELSE IF can_take_byte(oi)
    THEN [hse |-> h, oi |-> [oi EXCEPT !.buf = Append(oi.buf, h.current_byte)],
          st |-> HSES_DONE]
    ELSE [hse |-> h, oi |-> oi, st |-> HSES_FLUSH_BITS]

(***************************************************************************)
(* heatshrink_encoder_poll(hse, out_buf, out_buf_size, &output_size): the  *)
(* driver loop.  oi.buf holds the bytes written so far, output_size being  *)
(* its length.                                                             *)
(***************************************************************************)
encoder_poll_step(h, oi) ==
    LET in_state == h.state
        WithOut(r) == [hse |-> [r.hse EXCEPT !.state = r.st], oi |-> r.oi]
        NoOut(r) == [hse |-> [r.hse EXCEPT !.state = r.st], oi |-> oi]
    IN CASE in_state = HSES_FILLED ->
              [hse |-> [do_indexing(h) EXCEPT !.state = HSES_SEARCH], oi |-> oi]
         [] in_state = HSES_SEARCH -> Let(st_step_search(h), NoOut)
         [] in_state = HSES_YIELD_TAG_BIT -> Let(st_yield_tag_bit(h, oi), WithOut)
         [] in_state = HSES_YIELD_LITERAL -> Let(st_yield_literal(h, oi), WithOut)
         [] in_state = HSES_YIELD_BR_INDEX -> Let(st_yield_br_index(h, oi), WithOut)
         [] in_state = HSES_YIELD_BR_LENGTH -> Let(st_yield_br_length(h, oi), WithOut)
         [] in_state = HSES_SAVE_BACKLOG -> Let(st_save_backlog(h), NoOut)
         [] in_state = HSES_FLUSH_BITS -> Let(st_flush_bit_buffer(h, oi), WithOut)
         [] OTHER -> [hse |-> h, oi |-> oi]

\* encoder_poll_turn that starts on the window whether or not it is full
encoder_poll_turn_eager(s) ==
    LET in_state == s.hse.state
    IN CASE in_state = HSES_NOT_FULL ->
              [s EXCEPT !.hse = [s.hse EXCEPT !.state = HSES_FILLED]]
         [] in_state = HSES_DONE -> [s EXCEPT !.res = "HSER_POLL_EMPTY"]
         [] in_state = HSES_FLUSH_BITS ->
              Let(encoder_poll_step(s.hse, s.oi),
                  LAMBDA r : [hse |-> r.hse, oi |-> r.oi, res |-> "HSER_POLL_EMPTY"])
         [] OTHER ->
              Let(encoder_poll_step(s.hse, s.oi),
                  LAMBDA r :
                    [hse |-> r.hse, oi |-> r.oi,
                     res |-> IF r.hse.state = in_state
                                  /\ Len(r.oi.buf) = r.oi.buf_size
                             THEN "HSER_POLL_MORE" ELSE "RUNNING"])

\* one turn of the while (1) loop; s.res is "RUNNING" until the loop returns
encoder_poll_turn(s) ==
    LET in_state == s.hse.state
    IN CASE in_state = HSES_NOT_FULL -> [s EXCEPT !.res = "HSER_POLL_EMPTY"]
         [] in_state = HSES_DONE -> [s EXCEPT !.res = "HSER_POLL_EMPTY"]
         [] in_state = HSES_FLUSH_BITS ->
              \* no break after this case: falls through to HSES_DONE's return
              Let(encoder_poll_step(s.hse, s.oi),
                  LAMBDA r : [hse |-> r.hse, oi |-> r.oi, res |-> "HSER_POLL_EMPTY"])
         [] OTHER ->
              Let(encoder_poll_step(s.hse, s.oi),
                  LAMBDA r :
                    [hse |-> r.hse, oi |-> r.oi,
                     \* st_step_search comes back with another state or
                     \* not at all
                     res |-> IF r.hse.state = in_state
                                  /\ in_state # HSES_SEARCH
                                  /\ Len(r.oi.buf) = r.oi.buf_size
                             THEN "HSER_POLL_MORE" ELSE "RUNNING"])

\* the loop, cut after n turns: the first half of the turns, then the rest
RECURSIVE encoder_poll_loop(_, _)
encoder_poll_loop(s, n) ==
    IF s.res # "RUNNING" \/ n = 0 THEN s
    ELSE IF n = 1 THEN encoder_poll_turn(s)
    ELSE Let(encoder_poll_loop(s, n \div 2),
             LAMBDA m : encoder_poll_loop(m, n - (n \div 2)))

\* heatshrink_encoder_poll without the test of out_buf_size
heatshrink_encoder_poll_no_size_check(h, out_buf_size) ==
    Let(encoder_poll_loop([hse |-> h,
                           oi |-> [buf |-> <<>>, buf_size |-> out_buf_size],
                           res |-> "RUNNING"], MaxPollSteps),
        LAMBDA s : [hse |-> s.hse, out |-> s.oi.buf, res |-> s.res])

heatshrink_encoder_poll(h, out_buf_size) ==
    IF out_buf_size = 0
    THEN [hse |-> h, out |-> <<>>, res |-> "HSER_POLL_ERROR_MISUSE"]
    ELSE Let(encoder_poll_loop([hse |-> h,
                                oi |-> [buf |-> <<>>, buf_size |-> out_buf_size],
                                res |-> "RUNNING"], MaxPollSteps),
             LAMBDA s : [hse |-> s.hse, out |-> s.oi.buf, res |-> s.res])

\* heatshrink_encoder_finish that sets the flag and leaves the state alone
heatshrink_encoder_finish_flag_only(h) ==
    [hse |-> [h EXCEPT !.flags = h.flags \cup {FLAG_IS_FINISHING}],
     res |-> IF h.state = HSES_DONE THEN "HSER_FINISH_DONE"
             ELSE "HSER_FINISH_MORE"]

\* heatshrink_encoder_finish toggling the flag (^=) instead of setting it
heatshrink_encoder_finish_xor_flag(h) ==
    LET h1 == [h EXCEPT !.flags = IF FLAG_IS_FINISHING \in h.flags
                                  THEN h.flags \ {FLAG_IS_FINISHING}
                                  ELSE h.flags \cup {FLAG_IS_FINISHING}]
        h2 == IF h1.state = HSES_NOT_FULL THEN [h1 EXCEPT !.state = HSES_FILLED]
              ELSE h1
    IN [hse |-> h2,
        res |-> IF h2.state = HSES_DONE THEN "HSER_FINISH_DONE"
                ELSE "HSER_FINISH_MORE"]

heatshrink_encoder_finish(h) ==
    LET h1 == [h EXCEPT !.flags = h.flags \cup {FLAG_IS_FINISHING}]
        h2 == IF h1.state = HSES_NOT_FULL THEN [h1 EXCEPT !.state = HSES_FILLED]
              ELSE h1
    IN [hse |-> h2,
        res |-> IF h2.state = HSES_DONE THEN "HSER_FINISH_DONE"
                ELSE "HSER_FINISH_MORE"]

(***************************************************************************)
(* Decoder: states and instance.  bit_accumulator is a 32-bit shift        *)
(* register, kept as its two 16-bit halves.                                *)
(***************************************************************************)
HSDS_EMPTY == "HSDS_EMPTY"
HSDS_INPUT_AVAILABLE == "HSDS_INPUT_AVAILABLE"
HSDS_YIELD_LITERAL == "HSDS_YIELD_LITERAL"
HSDS_BACKREF_INDEX == "HSDS_BACKREF_INDEX"
HSDS_BACKREF_COUNT == "HSDS_BACKREF_COUNT"
HSDS_YIELD_BACKREF == "HSDS_YIELD_BACKREF"
HSDS_CHECK_FOR_MORE_INPUT == "HSDS_CHECK_FOR_MORE_INPUT"

\* (uint32_t)-1 and 0 as 32-bit values
MINUS_ONE == [hi |-> 65535, lo |-> 65535]
ACC_ZERO == [hi |-> 0, lo |-> 0]
\* acc <<= 1, then |= 1 when bit is set
ShiftIn(acc, bit) ==
    [hi |-> U16(2 * acc.hi + (acc.lo \div 32768)),
     lo |-> U16(2 * acc.lo + (IF bit THEN 1 ELSE 0))]

heatshrink_decoder_reset(d) ==
    [d EXCEPT !.buffers = [i \in 0 .. (2 ^ d.window_sz2) + d.input_buffer_size - 1 |-> 0],
              !.state = HSDS_EMPTY,
              !.input_size = 0,
              !.input_index = 0,
              !.bit_index = 0,
              !.current_byte = 0,
              !.output_count = 0,
              !.output_index = 0,
              !.head_index = 0,
              !.bit_accumulator = ACC_ZERO]

heatshrink_decoder_alloc(input_buffer_size, window_sz2, lookahead_sz2) ==
    IF \/ window_sz2 < HEATSHRINK_MIN_WINDOW_BITS
       \/ window_sz2 > HEATSHRINK_MAX_WINDOW_BITS
       \/ input_buffer_size = 0
       \/ lookahead_sz2 < HEATSHRINK_MIN_LOOKAHEAD_BITS
       \/ lookahead_sz2 > window_sz2
    THEN "NULL"
    ELSE heatshrink_decoder_reset(
           [input_buffer_size |-> input_buffer_size, window_sz2 |-> window_sz2,
            lookahead_sz2 |-> lookahead_sz2, buffers |-> <<>>,
            state |-> HSDS_EMPTY, input_size |-> 0, input_index |-> 0,
            bit_index |-> 0, current_byte |-> 0, output_count |-> 0,
            output_index |-> 0, head_index |-> 0, bit_accumulator |-> ACC_ZERO,
            bad_access |-> FALSE])

\* heatshrink_decoder_sink copying to the head of the input region instead
\* of after the bytes that are already there
heatshrink_decoder_sink_at_head(d, in_buf) ==
    LET rem == d.input_buffer_size - d.input_size
    IN IF rem = 0
       THEN [hsd |-> d, res |-> "HSDR_SINK_FULL", accepted |-> 0]
       ELSE LET size == IF rem < Len(in_buf) THEN rem ELSE Len(in_buf)
                copied == [i \in DOMAIN d.buffers |->
                             IF i < size THEN in_buf[i + 1] ELSE d.buffers[i]]
                was_empty == d.state = HSDS_EMPTY
            IN [hsd |-> [d EXCEPT !.buffers = copied,
                                  !.input_size = U16(d.input_size + size),
                                  !.state = IF was_empty THEN HSDS_INPUT_AVAILABLE
                                            ELSE d.state,
                                  !.input_index = IF was_empty THEN 0
                                                  ELSE d.input_index],
                res |-> "HSDR_SINK_OK", accepted |-> size]

heatshrink_decoder_sink(d, in_buf) ==
    LET rem == d.input_buffer_size - d.input_size
    IN IF rem = 0
       THEN [hsd |-> d, res |-> "HSDR_SINK_FULL", accepted |-> 0]
       ELSE LET size == IF rem < Len(in_buf) THEN rem ELSE Len(in_buf)
                copied == [i \in DOMAIN d.buffers |->
                             IF i >= d.input_size /\ i < d.input_size + size
                             THEN in_buf[i - d.input_size + 1]
                             ELSE d.buffers[i]]
                was_empty == d.state = HSDS_EMPTY
            IN [hsd |-> [d EXCEPT !.buffers = copied,
                                  !.input_size = U16(d.input_size + size),
                                  !.state = IF was_empty THEN HSDS_INPUT_AVAILABLE
                                            ELSE d.state,
                                  !.input_index = IF was_empty THEN 0
                                                  ELSE d.input_index],
                res |-> "HSDR_SINK_OK", accepted |-> size]

(***************************************************************************)
(* get_bits: the next COUNT bits of the input, MINUS_ONE on end of input.  *)
(* The bits a failing call has already taken stay taken, and stay in the   *)
(* accumulator.                                                            *)
(***************************************************************************)
\* one turn of get_bits' loop: load the next byte if needed, take one bit
\* bad_access records that some access so far fell outside its region: a
\* read of the input region at or above input_size, or a window access
\* outside [0, 2^W)
input_read_ok(d) == d.input_index < d.input_size
window_access_ok(d, i) == i >= 0 /\ i < 2 ^ d.window_sz2

get_bits_step(d) ==
    LET idx == U16(d.input_index + 1)
        exhausted == idx = d.input_size
        d1 == IF d.bit_index = 0
              THEN [d EXCEPT !.current_byte = d.buffers[d.input_index],
                             !.bad_access = d.bad_access \/ ~input_read_ok(d),
                             !.input_index = IF exhausted THEN 0 ELSE idx,
                             !.input_size = IF exhausted THEN 0 ELSE d.input_size,
                             !.bit_index = 128]
              ELSE d
    IN [d1 EXCEPT !.bit_accumulator =
                     ShiftIn(d1.bit_accumulator,
                             AndMask(d1.current_byte, d1.bit_index)),
                  !.bit_index = d1.bit_index \div 2]

RECURSIVE get_bits_loop(_, _, _)
get_bits_loop(d, i, count) ==
    IF i >= count
    THEN [hsd |-> [d EXCEPT !.bit_accumulator = ACC_ZERO], res |-> d.bit_accumulator]
    ELSE IF d.bit_index = 0 /\ d.input_size = 0
    THEN [hsd |-> d, res |-> MINUS_ONE]
    ELSE Let(get_bits_step(d), LAMBDA n : get_bits_loop(n, i + 1, count))

get_bits(d, count) ==
    IF count > 31 THEN [hsd |-> d, res |-> MINUS_ONE]
    ELSE IF d.input_size = 0 /\ d.bit_index < 2 ^ (count - 1)
    THEN [hsd |-> d, res |-> MINUS_ONE]
    ELSE get_bits_loop(d, 0, count)

BACKREF_COUNT_BITS(d) == d.lookahead_sz2
BACKREF_INDEX_BITS(d) == d.window_sz2

\* offset of the window in buffers, and the window's index mask
window_base(d) == d.input_buffer_size
window_mask(d) == (2 ^ d.window_sz2) - 1

push_byte(oi, byte) == [oi EXCEPT !.buf = Append(oi.buf, byte)]

st_input_available(d) ==
    Let(get_bits(d, 1),
        LAMBDA r :
          [hsd |-> r.hsd,
           st |-> IF r.res # ACC_ZERO THEN HSDS_YIELD_LITERAL
                  ELSE HSDS_BACKREF_INDEX])

dec_st_yield_literal(d, oi) ==
    IF Len(oi.buf) < oi.buf_size
    THEN Let(get_bits(d, 8),
             LAMBDA r :
               IF r.res = MINUS_ONE
               THEN [hsd |-> r.hsd, oi |-> oi, st |-> HSDS_YIELD_LITERAL]
               ELSE LET c == r.res.lo % 256
                        wi == r.hsd.head_index % (window_mask(d) + 1)
                        at == window_base(d) + wi
                    IN [hsd |-> [r.hsd EXCEPT !.buffers[at] = c,
                                              !.head_index = U16(r.hsd.head_index + 1),
                                              !.bad_access = r.hsd.bad_access
                                                  \/ ~window_access_ok(d, wi)],
                        oi |-> push_byte(oi, c),
                        st |-> HSDS_CHECK_FOR_MORE_INPUT])
    ELSE [hsd |-> d, oi |-> oi, st |-> HSDS_YIELD_LITERAL]

st_backref_index(d) ==
    Let(get_bits(d, BACKREF_INDEX_BITS(d)),
        LAMBDA r :
          IF r.res = MINUS_ONE
          THEN [hsd |-> r.hsd, st |-> HSDS_BACKREF_INDEX]
          ELSE [hsd |-> [r.hsd EXCEPT !.output_index = U16(r.res.lo + 1)],
                st |-> HSDS_BACKREF_COUNT])

st_backref_count(d) ==
    Let(get_bits(d, BACKREF_COUNT_BITS(d)),
        LAMBDA r :
          IF r.res = MINUS_ONE
          THEN [hsd |-> r.hsd, st |-> HSDS_BACKREF_COUNT]
          ELSE [hsd |-> [r.hsd EXCEPT !.output_count = U16(r.res.lo + 1)],
                st |-> HSDS_YIELD_BACKREF])

\* a turn of the copy loop that emits the byte without writing it back
copy_backref_step_no_write(d, oi) ==
    LET size == window_mask(d) + 1
        ri == (d.head_index - d.output_index) % size
        c == d.buffers[window_base(d) + ri]
    IN [hsd |-> [d EXCEPT !.head_index = U16(d.head_index + 1)],
        oi |-> push_byte(oi, c)]

\* one turn of st_yield_backref's copy loop: read, emit, write back
copy_backref_step(d, oi) ==
    LET size == window_mask(d) + 1
        ri == (d.head_index - d.output_index) % size
        wi == d.head_index % size
        c == d.buffers[window_base(d) + ri]
        at == window_base(d) + wi
    IN [hsd |-> [d EXCEPT !.buffers[at] = c,
                          !.head_index = U16(d.head_index + 1),
                          !.bad_access = d.bad_access \/ ~window_access_ok(d, ri)
                                             \/ ~window_access_ok(d, wi)],
        oi |-> push_byte(oi, c)]

RECURSIVE copy_backref(_, _, _, _)
copy_backref(d, oi, i, count) ==
    IF i >= count THEN [hsd |-> d, oi |-> oi]
    ELSE Let(copy_backref_step(d, oi),
             LAMBDA n : copy_backref(n.hsd, n.oi, i + 1, count))

\* st_yield_backref copying output_count bytes whatever room is left
st_yield_backref_no_clamp(d, oi) ==
    LET space == oi.buf_size - Len(oi.buf)
        count == d.output_count
    IN IF space > 0
       THEN Let(copy_backref(d, oi, 0, count),
                LAMBDA r :
                  [hsd |-> [r.hsd EXCEPT !.output_count = U16(d.output_count - count)],
                   oi |-> r.oi,
                   st |-> IF U16(d.output_count - count) = 0
                          THEN HSDS_CHECK_FOR_MORE_INPUT
                          ELSE HSDS_YIELD_BACKREF])
       ELSE [hsd |-> d, oi |-> oi, st |-> HSDS_YIELD_BACKREF]

st_yield_backref(d, oi) ==
    LET space == oi.buf_size - Len(oi.buf)
        count == IF d.output_count < space THEN d.output_count ELSE space
    IN IF space > 0
       THEN Let(copy_backref(d, oi, 0, count),
                LAMBDA r :
                  [hsd |-> [r.hsd EXCEPT !.output_count = U16(d.output_count - count)],
                   oi |-> r.oi,
                   st |-> IF U16(d.output_count - count) = 0
                          THEN HSDS_CHECK_FOR_MORE_INPUT
                          ELSE HSDS_YIELD_BACKREF])
       ELSE [hsd |-> d, oi |-> oi, st |-> HSDS_YIELD_BACKREF]

\* st_check_for_input that also looks at the unread bits of current_byte
st_check_for_input_bits(d) ==
    [hsd |-> d,
     st |-> IF d.input_size = 0 /\ d.bit_index = 0 THEN HSDS_EMPTY
            ELSE HSDS_INPUT_AVAILABLE]

st_check_for_input(d) ==
    [hsd |-> d,
     st |-> IF d.input_size = 0 THEN HSDS_EMPTY ELSE HSDS_INPUT_AVAILABLE]

decoder_poll_step(d, oi) ==
    LET in_state == d.state
        WithOut(r) == [hsd |-> [r.hsd EXCEPT !.state = r.st], oi |-> r.oi]
        NoOut(r) == [hsd |-> [r.hsd EXCEPT !.state = r.st], oi |-> oi]
    IN CASE in_state = HSDS_INPUT_AVAILABLE -> Let(st_input_available(d), NoOut)
         [] in_state = HSDS_YIELD_LITERAL -> Let(dec_st_yield_literal(d, oi), WithOut)
         [] in_state = HSDS_BACKREF_INDEX -> Let(st_backref_index(d), NoOut)
         [] in_state = HSDS_BACKREF_COUNT -> Let(st_backref_count(d), NoOut)
         [] in_state = HSDS_YIELD_BACKREF -> Let(st_yield_backref(d, oi), WithOut)
         [] in_state = HSDS_CHECK_FOR_MORE_INPUT -> Let(st_check_for_input(d), NoOut)
         [] OTHER -> [hsd |-> d, oi |-> oi]

\* decoder_poll_turn that reports EMPTY whenever the state did not change
decoder_poll_turn_always_empty(s) ==
    IF s.hsd.state = HSDS_EMPTY THEN [s EXCEPT !.res = "HSDR_POLL_EMPTY"]
    ELSE Let(decoder_poll_step(s.hsd, s.oi),
             LAMBDA r :
               [hsd |-> r.hsd, oi |-> r.oi,
                res |-> IF r.hsd.state # s.hsd.state THEN "RUNNING"
                        ELSE "HSDR_POLL_EMPTY"])

\* one turn of the while (1) loop; s.res is "RUNNING" until the loop returns
decoder_poll_turn(s) ==
    IF s.hsd.state = HSDS_EMPTY THEN [s EXCEPT !.res = "HSDR_POLL_EMPTY"]
    ELSE Let(decoder_poll_step(s.hsd, s.oi),
             LAMBDA r :
               [hsd |-> r.hsd, oi |-> r.oi,
                res |-> IF r.hsd.state # s.hsd.state THEN "RUNNING"
                        ELSE IF Len(r.oi.buf) = r.oi.buf_size THEN "HSDR_POLL_MORE"
                        ELSE "HSDR_POLL_EMPTY"])

\* the loop, cut after n turns: the first half of the turns, then the rest
RECURSIVE decoder_poll_loop(_, _)
decoder_poll_loop(s, n) ==
    IF s.res # "RUNNING" \/ n = 0 THEN s
    ELSE IF n = 1 THEN decoder_poll_turn(s)
    ELSE Let(decoder_poll_loop(s, n \div 2),
             LAMBDA m : decoder_poll_loop(m, n - (n \div 2)))

heatshrink_decoder_poll(d, out_buf_size) ==
    Let(decoder_poll_loop([hsd |-> d,
                           oi |-> [buf |-> <<>>, buf_size |-> out_buf_size],
                           res |-> "RUNNING"], MaxPollSteps),
        LAMBDA s : [hsd |-> s.hsd, out |-> s.oi.buf, res |-> s.res])

heatshrink_decoder_finish(d) ==
    CASE d.state = HSDS_EMPTY -> "HSDR_FINISH_DONE"
      [] d.state \in {HSDS_BACKREF_INDEX, HSDS_BACKREF_COUNT} ->
           IF d.input_size = 0 THEN "HSDR_FINISH_DONE" ELSE "HSDR_FINISH_MORE"
      [] OTHER -> "HSDR_FINISH_MORE"

(***************************************************************************)
(* The callers.  X is the input, sunk the number of its bytes the encoder  *)
(* has accepted, comp the bytes polled from the encoder so far; dsunk the  *)
(* number of bytes of comp the decoder has accepted, decomp the bytes      *)
(* polled from the decoder so far.  call records the last API call: its    *)
(* function, its size argument, its return code and the count it stored.   *)
(***************************************************************************)
\* an instance that is not allocated (or has been freed)
NoInstance == "NULL"

NoCall == [op |-> "none", size |-> 0, res |-> "none", n |-> 0]

\* hist: finished - finish has been called; polled_since_sink - poll has been
\* called since the last sink that accepted a byte; fin_clean - the first
\* finish came with no poll between it and that sink
NoHist == [finished |-> FALSE, polled_since_sink |-> FALSE, fin_clean |-> FALSE]

\* input families: every string over Alphabet up to MaxLen bytes, and
\* periodic strings long enough to fill the window more than once
Seeds == {<<97>>, <<0, 0, 0, 97, 0, 97, 255>>,
          <<1, 2, 3, 4, 5, 6, 7, 8, 9, 10, 11>>}
LongLens == {17, MaxLongLen}
Periodic(seed, n) == [i \in 1 .. n |-> seed[((i - 1) % Len(seed)) + 1]]
ShortInputs == UNION {[1 .. n -> Alphabet] : n \in 0 .. MaxLen}
LongInputs == {Periodic(seed, n) : seed \in Seeds, n \in LongLens}
Inputs == ShortInputs \cup LongInputs
\* the short inputs and one input longer than the window
SmallInputs == ShortInputs \cup {Periodic(<<0, 0, 0, 97, 0, 97, 255>>, 17)}

\* (window_sz2, lookahead_sz2) of the encoders explored
EncConfigs == {<<4, 3>>, <<4, 4>>}
\* sizes of the chunks a caller offers to sink, and output capacities
SinkSizes == {1, 3, BigCap}
PollCaps == {1, 2, BigCap}

(***************************************************************************)
(* Spec: one encoder under a caller that makes any API call at any time.   *)
(***************************************************************************)
InitEnc ==
    /\ \E cfg \in EncConfigs : hse = heatshrink_encoder_alloc(cfg[1], cfg[2])
    /\ hsd = NoInstance
    /\ X \in Inputs
    /\ sunk = 0 /\ comp = <<>> /\ dsunk = 0 /\ decomp = <<>>
    /\ call = NoCall /\ hist = NoHist /\ pc = "caller"

\* the caller offers the next (at most n) bytes of X
EncSink(n) ==
    LET in_buf == SubSeq(X, sunk + 1, Min(sunk + n, Len(X)))
        r == heatshrink_encoder_sink(hse, in_buf)
    IN /\ hse' = r.hse
       /\ sunk' = sunk + r.accepted
       /\ call' = [op |-> "encoder_sink", size |-> Len(in_buf), res |-> r.res,
                    n |-> r.accepted]
       /\ hist' = IF r.accepted > 0
                   THEN [hist EXCEPT !.polled_since_sink = FALSE] ELSE hist
       /\ UNCHANGED <<hsd, X, comp, dsunk, decomp, pc>>

EncPoll(cap) ==
    LET r == heatshrink_encoder_poll(hse, cap)
    IN /\ hse' = r.hse
       /\ comp' = comp \o r.out
       /\ call' = [op |-> "encoder_poll", size |-> cap, res |-> r.res,
                    n |-> Len(r.out)]
       /\ hist' = [hist EXCEPT !.polled_since_sink = TRUE]
       /\ UNCHANGED <<hsd, X, sunk, dsunk, decomp, pc>>

EncFinish ==
    LET r == heatshrink_encoder_finish(hse)
    IN /\ hse' = r.hse
       /\ call' = [op |-> "encoder_finish", size |-> 0, res |-> r.res, n |-> 0]
       /\ hist' = IF hist.finished THEN hist
                   ELSE [hist EXCEPT !.finished = TRUE,
                                     !.fin_clean = ~hist.polled_since_sink]
       /\ UNCHANGED <<hsd, X, sunk, comp, dsunk, decomp, pc>>

Next ==
    \/ \E n \in SinkSizes : EncSink(n)
    \/ \E cap \in PollCaps : EncPoll(cap)
    \/ EncFinish

Spec == InitEnc /\ [][Next]_vars

(***************************************************************************)
(* SpecFair: the free caller of Spec on the small inputs, which keeps      *)
(* calling poll (with a non-empty output buffer) for ever.                 *)
(***************************************************************************)
InitFair == InitEnc /\ X \in SmallInputs

SpecFair ==
    InitFair /\ [][Next]_vars /\ WF_vars(\E cap \in PollCaps : EncPoll(cap))

(***************************************************************************)
(* compress: the encoding loop of the test's compress_and_expand_and_check *)
(* as a function of the configuration and the input: sink what is left,    *)
(* call finish once everything is sunk, poll while poll returns MORE.      *)
(* rounds bounds the loop (an encoder that accepts nothing never ends it). *)
(***************************************************************************)
\* (each call's result is bound once, as a value, by ranging over a singleton)
RECURSIVE poll_while_more(_, _, _)
poll_while_more(h, out, cap) ==
    CHOOSE res \in
        { IF r.res = "HSER_POLL_MORE" /\ Len(r.out) > 0
          THEN poll_while_more(r.hse, out \o r.out, cap)
          ELSE [hse |-> r.hse, out |-> out \o r.out]
          : r \in {heatshrink_encoder_poll(h, cap)} } : TRUE

\* one turn of the loop: sink the rest, finish if all is sunk, poll
compress_round(h, x, n) ==
    CHOOSE res \in
        { [hse |-> p.hse, out |-> p.out, sunk |-> n + s.accepted]
          : p \in { poll_while_more(
                        IF n + s.accepted = Len(x)
                        THEN heatshrink_encoder_finish(s.hse).hse ELSE s.hse,
                        <<>>, BigCap)
                    : s \in {heatshrink_encoder_sink(h, SubSeq(x, n + 1, Len(x)))} },
            s \in {heatshrink_encoder_sink(h, SubSeq(x, n + 1, Len(x)))} } : TRUE

RECURSIVE compress_loop(_, _, _, _, _)
compress_loop(h, x, n, out, rounds) ==
    IF n >= Len(x) \/ rounds = 0 THEN [hse |-> h, comp |-> out, sunk |-> n]
    ELSE CHOOSE res \in
           { compress_loop(r.hse, x, r.sunk, out \o r.out, rounds - 1)
             : r \in {compress_round(h, x, n)} } : TRUE

compress(window_sz2, lookahead_sz2, x) ==
    compress_loop(heatshrink_encoder_alloc(window_sz2, lookahead_sz2), x, 0,
                  <<>>, Len(x) + 1).comp

(***************************************************************************)
(* SpecDec: one decoder, fed the stream an encoder made of X, under a      *)
(* caller that makes any API call at any time (sinking the stream in       *)
(* chunks of its choice).                                                  *)
(***************************************************************************)
\* (window_sz2, lookahead_sz2, input_buffer_size) of the decoders explored
DecConfigs == {<<4, 3, 1>>, <<4, 3, 2>>, <<4, 3, BigCap>>}
\* a wide window: an index field of more than 8 bits
WideConfigs == {<<9, 3, 1>>, <<9, 3, 4>>}
WideInputs == {<<0, 0, 0, 97, 0, 97, 97, 0, 0, 0>>, <<97, 97, 97, 97>>,
               <<97, 98, 99, 97, 98, 99, 97>>}

DecCase(cfg, x) ==
    /\ hsd = heatshrink_decoder_alloc(cfg[3], cfg[1], cfg[2])
    /\ X = x
    /\ comp = compress(cfg[1], cfg[2], x)

InitDec ==
    /\ \/ \E cfg \in DecConfigs, x \in SmallInputs : DecCase(cfg, x)
       \/ \E cfg \in WideConfigs, x \in WideInputs : DecCase(cfg, x)
    /\ hse = NoInstance
    /\ sunk = Len(X) /\ dsunk = 0 /\ decomp = <<>>
    /\ call = NoCall /\ hist = NoHist /\ pc = "caller"

\* the caller offers the next (at most n) bytes of the stream
DecSink(n) ==
    /\ dsunk < Len(comp)
    /\ LET in_buf == SubSeq(comp, dsunk + 1, Min(dsunk + n, Len(comp)))
           r == heatshrink_decoder_sink(hsd, in_buf)
       IN /\ hsd' = r.hsd
          /\ dsunk' = dsunk + r.accepted
          /\ call' = [op |-> "decoder_sink", size |-> Len(in_buf), res |-> r.res,
                       n |-> r.accepted]
    /\ UNCHANGED <<hse, X, sunk, comp, decomp, hist, pc>>

DecPoll(cap) ==
    LET r == heatshrink_decoder_poll(hsd, cap)
    IN /\ hsd' = r.hsd
       /\ decomp' = decomp \o r.out
       /\ call' = [op |-> "decoder_poll", size |-> cap, res |-> r.res,
                    n |-> Len(r.out)]
       /\ UNCHANGED <<hse, X, sunk, comp, dsunk, hist, pc>>

DecFinish ==
    /\ call' = [op |-> "decoder_finish", size |-> 0,
                 res |-> heatshrink_decoder_finish(hsd), n |-> 0]
    /\ UNCHANGED <<hse, hsd, X, sunk, comp, dsunk, decomp, hist, pc>>

NextDec ==
    \/ \E n \in SinkSizes : DecSink(n)
    \/ \E cap \in PollCaps : DecPoll(cap)
    \/ DecFinish

SpecDec == InitDec /\ [][NextDec]_vars

(***************************************************************************)
(* SpecAdv: one decoder under a caller that makes any API call at any      *)
(* time and sinks bytes of any kind, not a stream the encoder made.        *)
(***************************************************************************)
MaxAdvLen == 3
\* bytes that read as back-references with the lowest and the highest
\* fields, as literals, and as a mix
AdvBytes == {0, 127, 255}
AdvStreams == UNION {[1 .. n -> AdvBytes] : n \in 1 .. MaxAdvLen}

InitAdv ==
    /\ \E cfg \in DecConfigs \cup WideConfigs :
          hsd = heatshrink_decoder_alloc(cfg[3], cfg[1], cfg[2])
    /\ comp \in AdvStreams
    /\ X = <<>> /\ hse = NoInstance
    /\ sunk = 0 /\ dsunk = 0 /\ decomp = <<>>
    /\ call = NoCall /\ hist = NoHist /\ pc = "caller"

SpecAdv == InitAdv /\ [][NextDec]_vars

(***************************************************************************)
(* SpecRT: the calls compress_and_expand_and_check makes, in its order:    *)
(* sink the rest of X, finish once all of it is sunk, poll the encoder     *)
(* while it returns MORE; then the same with the compressed bytes and the  *)
(* decoder; then compare.  pc is the driver's position.  The harness's     *)
(* ASSERTs on counts and result codes end the test only; what is modelled  *)
(* is the data the calls move and the two FAILm checks on the output.      *)
(***************************************************************************)
RTConfigs == {<<4, 3, 1>>, <<4, 3, BigCap>>, <<4, 4, 2>>}
RTWideConfigs == {<<9, 3, 1>>, <<9, 3, BigCap>>}

\* comp_sz and decomp_sz of the driver
buf_sz(input_size) == input_size + (input_size \div 2) + 4

RTCase(cfg, x) ==
    /\ hse = heatshrink_encoder_alloc(cfg[1], cfg[2])
    /\ hsd = heatshrink_decoder_alloc(cfg[3], cfg[1], cfg[2])
    /\ X = x

InitRT ==
    /\ \/ \E cfg \in RTConfigs, x \in Inputs : RTCase(cfg, x)
       \/ \E cfg \in RTWideConfigs, x \in WideInputs : RTCase(cfg, x)
    /\ sunk = 0 /\ comp = <<>> /\ dsunk = 0 /\ decomp = <<>>
    /\ call = NoCall /\ hist = NoHist /\ pc = "enc_sink"

\* while (sunk < input_size): sink, and finish when everything is sunk
RTEncSink ==
    /\ pc = "enc_sink"
    /\ IF sunk < Len(X)
       THEN LET r == heatshrink_encoder_sink(hse, SubSeq(X, sunk + 1, Len(X)))
                f == heatshrink_encoder_finish(r.hse)
            IN /\ sunk' = sunk + r.accepted
               /\ hse' = IF sunk + r.accepted = Len(X) THEN f.hse ELSE r.hse
               /\ call' = [op |-> "encoder_sink", size |-> Len(X) - sunk,
                            res |-> r.res, n |-> r.accepted]
               /\ pc' = "enc_poll"
       ELSE /\ pc' = "dec_sink"
            /\ UNCHANGED <<hse, sunk, call>>
    /\ UNCHANGED <<hsd, X, comp, dsunk, decomp, hist>>

\* do poll while (pres == HSER_POLL_MORE)
RTEncPoll ==
    /\ pc = "enc_poll"
    /\ LET r == heatshrink_encoder_poll(hse, buf_sz(Len(X)) - Len(comp))
       IN /\ hse' = r.hse
          /\ comp' = comp \o r.out
          /\ call' = [op |-> "encoder_poll", size |-> buf_sz(Len(X)) - Len(comp),
                       res |-> r.res, n |-> Len(r.out)]
          /\ pc' = IF r.res = "HSER_POLL_MORE" THEN "enc_poll" ELSE "enc_sink"
    /\ UNCHANGED <<hsd, X, sunk, dsunk, decomp, hist>>

\* while (sunk < compressed_size): sink into the decoder
RTDecSink ==
    /\ pc = "dec_sink"
    /\ IF dsunk < Len(comp)
       THEN LET r == heatshrink_decoder_sink(hsd, SubSeq(comp, dsunk + 1, Len(comp)))
            IN /\ dsunk' = dsunk + r.accepted
               /\ hsd' = r.hsd
               /\ call' = [op |-> "decoder_sink", size |-> Len(comp) - dsunk,
                            res |-> r.res, n |-> r.accepted]
               /\ pc' = "dec_poll"
       ELSE /\ pc' = "check"
            /\ UNCHANGED <<hsd, dsunk, call>>
    /\ UNCHANGED <<hse, X, sunk, comp, decomp, hist>>

\* do poll while (pres == HSDR_POLL_MORE); FAILm if more came out than went in
RTDecPoll ==
    /\ pc = "dec_poll"
    /\ LET r == heatshrink_decoder_poll(hsd, buf_sz(Len(X)) - Len(decomp))
       IN /\ hsd' = r.hsd
          /\ decomp' = decomp \o r.out
          /\ call' = [op |-> "decoder_poll", size |-> buf_sz(Len(X)) - Len(decomp),
                       res |-> r.res, n |-> Len(r.out)]
          /\ pc' = IF r.res = "HSDR_POLL_MORE" THEN "dec_poll"
                    ELSE IF Len(decomp) + Len(r.out) > Len(X) THEN "fail"
                    ELSE "dec_sink"
    /\ UNCHANGED <<hse, X, sunk, comp, dsunk, hist>>

\* the length and byte-by-byte comparison that ends the test
RTCheck ==
    /\ pc = "check"
    /\ pc' = IF decomp = X THEN "pass" ELSE "fail"
    /\ UNCHANGED <<hse, hsd, X, sunk, comp, dsunk, decomp, call, hist>>

NextRT == RTEncSink \/ RTEncPoll \/ RTDecSink \/ RTDecPoll \/ RTCheck

SpecRT == InitRT /\ [][NextRT]_vars

\* SpecRTFair: the driver of SpecRT keeps running: it is a sequential
\* program, and each of its steps is a call that returns
SpecRTFair == InitRT /\ [][NextRT]_vars /\ WF_vars(NextRT)

(***************************************************************************)
(* SpecTiming: the driver of compress_and_expand_and_check on the encoder, *)
(* with the one choice compress.c and the test make differently: once the  *)
(* last byte is sunk, finish is called at once (the test), or only after   *)
(* poll has stopped returning MORE (hist.late).  pc is the driver's        *)
(* position; hist.full records that the last sink filled the window.       *)
(***************************************************************************)
TimingConfigs == {<<4, 3>>}
\* inputs that end inside a window and inputs whose last byte fills one
TimingInputs ==
    (Inputs \ {<<>>})
        \cup {Periodic(seed, n) : seed \in Seeds, n \in {16, 32}}
        \cup {<<1, 2, 3, 97, 97, 97, 97, 97, 97, 97, 97, 97, 1, 2, 3, 0>>}

InitTiming ==
    /\ \E cfg \in TimingConfigs : hse = heatshrink_encoder_alloc(cfg[1], cfg[2])
    /\ hsd = NoInstance
    /\ X \in TimingInputs
    /\ sunk = 0 /\ comp = <<>> /\ dsunk = 0 /\ decomp = <<>>
    /\ call = NoCall /\ hist = [late |-> FALSE, full |-> FALSE]
    /\ pc = "sink"

\* sink the rest of X; once all of it is sunk, finish now or poll first
TimingSink ==
    /\ pc = "sink" /\ sunk < Len(X)
    /\ LET r == heatshrink_encoder_sink(hse, SubSeq(X, sunk + 1, Len(X)))
           f == heatshrink_encoder_finish(r.hse)
       IN /\ sunk' = sunk + r.accepted
          /\ call' = [op |-> "encoder_sink", size |-> Len(X) - sunk,
                       res |-> r.res, n |-> r.accepted]
          /\ IF sunk + r.accepted < Len(X)
             THEN hse' = r.hse /\ pc' = "poll" /\ hist' = hist
             ELSE \E late \in BOOLEAN :
                     /\ hse' = IF late THEN r.hse ELSE f.hse
                     /\ pc' = IF late THEN "poll_first" ELSE "drain"
                     /\ hist' = [late |-> late,
                                 full |-> r.hse.state = HSES_FILLED]
    /\ UNCHANGED <<hsd, X, comp, dsunk, decomp>>

\* do poll while (pres == HSER_POLL_MORE)
TimingPoll ==
    /\ pc \in {"poll", "poll_first", "drain"}
    /\ LET r == heatshrink_encoder_poll(hse, BigCap)
       IN /\ hse' = r.hse
          /\ comp' = comp \o r.out
          /\ call' = [op |-> "encoder_poll", size |-> BigCap, res |-> r.res,
                       n |-> Len(r.out)]
          /\ pc' = IF r.res = "HSER_POLL_MORE" THEN pc
                   ELSE IF pc = "poll" THEN "sink"
                   ELSE IF pc = "poll_first" THEN "finish_late"
                   ELSE "done"
    /\ UNCHANGED <<hsd, X, sunk, dsunk, decomp, hist>>

\* finish, called after poll has returned EMPTY for the last window
TimingFinish ==
    /\ pc = "finish_late"
    /\ LET f == heatshrink_encoder_finish(hse)
       IN /\ hse' = f.hse
          /\ call' = [op |-> "encoder_finish", size |-> 0, res |-> f.res,
                       n |-> 0]
    /\ pc' = "drain"
    /\ UNCHANGED <<hsd, X, sunk, comp, dsunk, decomp, hist>>

NextTiming ==
    \/ TimingSink
    \/ TimingPoll
    \/ TimingFinish

SpecTiming == InitTiming /\ [][NextTiming]_vars

(***************************************************************************)
(* SpecDecZero: the decoder of SpecDec with a window of 4 bits, under a    *)
(* caller that also sinks a buffer of length 0, once, at any moment.        *)
(* hist.zero records that it has done so.                                  *)
(***************************************************************************)
InitDecZero ==
    /\ \E cfg \in DecConfigs, x \in ShortInputs : DecCase(cfg, x)
    /\ hse = NoInstance
    /\ sunk = Len(X) /\ dsunk = 0 /\ decomp = <<>>
    /\ call = NoCall /\ hist = [zero |-> FALSE] /\ pc = "caller"

\* heatshrink_decoder_sink(hsd, in_buf, 0, &count)
DecSinkZero ==
    /\ ~hist.zero
    /\ LET r == heatshrink_decoder_sink(hsd, <<>>)
       IN /\ hsd' = r.hsd
          /\ call' = [op |-> "decoder_sink", size |-> 0, res |-> r.res,
                       n |-> r.accepted]
    /\ hist' = [zero |-> TRUE]
    /\ UNCHANGED <<hse, X, sunk, comp, dsunk, decomp, pc>>

NextDecZero ==
    \/ NextDec
    \/ DecSinkZero

SpecDecZero == InitDecZero /\ [][NextDecZero]_vars

(***************************************************************************)
(* SpecRun: compress_and_expand_and_check on runs of a single byte.        *)
(***************************************************************************)
MaxRunLen == 18
Runs == {Periodic(<<b>>, n) : b \in Alphabet, n \in 1 .. MaxRunLen}

InitRun ==
    /\ \E cfg \in RTConfigs \cup RTWideConfigs, x \in Runs : RTCase(cfg, x)
    /\ sunk = 0 /\ comp = <<>> /\ dsunk = 0 /\ decomp = <<>>
    /\ call = NoCall /\ hist = NoHist /\ pc = "enc_sink"

SpecRun == InitRun /\ [][NextRT]_vars

(***************************************************************************)
(* SpecCompress: main of compress.c.  X is the input file, sunk the bytes  *)
(* of it the encoder has taken, comp the output file, pc the position:     *)
(* "read" is the fread that heads the outer loop, "sink" the sink of what  *)
(* is left of the chunk, "poll_then_sink" and "poll_then_read" the poll    *)
(* loop (named after where the inner while goes next), "finish" the call   *)
(* after the loop, "exit_0" and "exit_1" the return of main.               *)
(***************************************************************************)
BUFFER_SIZE == 256
WINDOW_SIZE == 8
LOOKAHEAD_SIZE == 4

\* lengths of the files longer than a chunk
MaxFileLen == 300
FileLens == {BUFFER_SIZE, MaxFileLen}
Files == Inputs \cup {Periodic(seed, n) : seed \in Seeds, n \in FileLens}

\* the end in X of the chunk that holds byte number sunk + 1
chunk_end == Min(Len(X), ((sunk \div BUFFER_SIZE) + 1) * BUFFER_SIZE)

InitCompress ==
    /\ hse = heatshrink_encoder_alloc(WINDOW_SIZE, LOOKAHEAD_SIZE)
    /\ hsd = NoInstance
    /\ X \in Files
    /\ sunk = 0 /\ comp = <<>> /\ dsunk = 0 /\ decomp = <<>>
    /\ call = NoCall /\ hist = NoHist /\ pc = "read"

\* while ((input_size = fread(...)) > 0)
CompressRead ==
    /\ pc = "read"
    /\ pc' = IF sunk < Len(X) THEN "sink" ELSE "finish"
    /\ UNCHANGED <<hse, hsd, X, sunk, comp, dsunk, decomp, call, hist>>

\* sink what is left of the chunk; an error ends the program
CompressSink ==
    /\ pc = "sink"
    /\ LET in_buf == SubSeq(X, sunk + 1, chunk_end)
           r == heatshrink_encoder_sink(hse, in_buf)
       IN /\ hse' = r.hse
          /\ sunk' = sunk + r.accepted
          /\ call' = [op |-> "encoder_sink", size |-> Len(in_buf), res |-> r.res,
                       n |-> r.accepted]
          /\ pc' = IF r.res # "HSER_SINK_OK" THEN "exit_1"
                    ELSE IF r.accepted < Len(in_buf) THEN "poll_then_sink"
                    ELSE "poll_then_read"
    /\ UNCHANGED <<hsd, X, comp, dsunk, decomp, hist>>

\* do poll, fwrite while (poll_res == HSER_POLL_MORE)
CompressPoll ==
    /\ pc \in {"poll_then_sink", "poll_then_read"}
    /\ LET r == heatshrink_encoder_poll(hse, BUFFER_SIZE)
       IN /\ hse' = r.hse
          /\ comp' = comp \o r.out
          /\ call' = [op |-> "encoder_poll", size |-> BUFFER_SIZE, res |-> r.res,
                       n |-> Len(r.out)]
          /\ pc' = IF r.res \notin {"HSER_POLL_MORE", "HSER_POLL_EMPTY"}
                    THEN "exit_1"
                    ELSE IF r.res = "HSER_POLL_MORE" THEN pc
                    ELSE IF pc = "poll_then_sink" THEN "sink" ELSE "read"
    /\ UNCHANGED <<hsd, X, sunk, dsunk, decomp, hist>>

\* finish_res = heatshrink_encoder_finish(hse), and the return of main
CompressFinish ==
    /\ pc = "finish"
    /\ LET r == heatshrink_encoder_finish(hse)
       IN /\ hse' = r.hse
          /\ call' = [op |-> "encoder_finish", size |-> 0, res |-> r.res, n |-> 0]
          /\ pc' = IF r.res # "HSER_FINISH_DONE" THEN "exit_1" ELSE "exit_0"
    /\ hist' = [hist EXCEPT !.finished = TRUE]
    /\ UNCHANGED <<hsd, X, sunk, comp, dsunk, decomp>>

NextCompress == CompressRead \/ CompressSink \/ CompressPoll \/ CompressFinish

SpecCompress == InitCompress /\ [][NextCompress]_vars

(***************************************************************************)
(* SpecIdx: an encoder of the build with HEATSHRINK_USE_INDEX, for a small, *)
(* a medium and the largest window, under a caller that offers everything  *)
(* that is left of X while something is left, calls finish once nothing is *)
(* left, and polls into BigCap bytes at any time.  A run is followed until *)
(* MaxIdxOut bytes have been written.                                      *)
(***************************************************************************)
MaxIdxOut == 64

IdxCases ==
    ({<<HEATSHRINK_MIN_WINDOW_BITS, HEATSHRINK_MIN_LOOKAHEAD_BITS>>} \X LongInputs)
    \cup ({<<WINDOW_SIZE, LOOKAHEAD_SIZE>>}
          \X {Periodic(seed, MaxFileLen) : seed \in Seeds})
    \cup ({<<HEATSHRINK_MAX_WINDOW_BITS, HEATSHRINK_MIN_LOOKAHEAD_BITS>>}
          \X {Periodic(<<97>>, 2 ^ HEATSHRINK_MAX_WINDOW_BITS)})

InitIdx ==
    /\ \E c \in IdxCases, junk \in IndexJunk :
          /\ hse = heatshrink_encoder_alloc_USE_INDEX(c[1][1], c[1][2], junk)
          /\ X = c[2]
    /\ hsd = NoInstance
    /\ sunk = 0 /\ comp = <<>> /\ dsunk = 0 /\ decomp = <<>>
    /\ call = NoCall /\ hist = NoHist
    /\ pc = "caller"

NextIdx ==
    \/ Len(comp) < MaxIdxOut /\ sunk < Len(X) /\ EncSink(Len(X))
    \/ Len(comp) < MaxIdxOut /\ EncPoll(BigCap)
    \/ Len(comp) < MaxIdxOut /\ sunk = Len(X) /\ EncFinish

SpecIdx == InitIdx /\ [][NextIdx]_vars

(***************************************************************************)
(* SpecArgs: one encoder, or one decoder on a stream the encoder made,     *)
(* under a caller that makes any API call at any time and may pass NULL    *)
(* for a pointer argument and 0 for the size of the output buffer.  nulls  *)
(* is the set of the pointer arguments of a call that are NULL: the        *)
(* instance, the buffer, the place for the count.  call.nulls records it;  *)
(* pc tells which of the two instances the caller has.                     *)
(***************************************************************************)
NullArgs == {{}, {"instance"}, {"buffer"}, {"count"}}

heatshrink_encoder_sink_args(h, in_buf, nulls) ==
    IF nulls # {}
    THEN [hse |-> h, res |-> "HSER_SINK_ERROR_NULL", accepted |-> 0]
    ELSE heatshrink_encoder_sink(h, in_buf)

heatshrink_encoder_poll_args(h, out_buf_size, nulls) ==
    IF nulls # {}
    THEN [hse |-> h, out |-> <<>>, res |-> "HSER_POLL_ERROR_NULL"]
    ELSE heatshrink_encoder_poll(h, out_buf_size)

heatshrink_encoder_finish_args(h, nulls) ==
    IF "instance" \in nulls
    THEN [hse |-> h, res |-> "HSER_FINISH_ERROR_NULL"]
    ELSE heatshrink_encoder_finish(h)

heatshrink_decoder_sink_args(d, in_buf, nulls) ==
    IF nulls # {}
    THEN [hsd |-> d, res |-> "HSDR_SINK_ERROR_NULL", accepted |-> 0]
    ELSE heatshrink_decoder_sink(d, in_buf)

heatshrink_decoder_poll_args(d, out_buf_size, nulls) ==
    IF nulls # {}
    THEN [hsd |-> d, out |-> <<>>, res |-> "HSDR_POLL_ERROR_NULL"]
    ELSE heatshrink_decoder_poll(d, out_buf_size)

heatshrink_decoder_finish_args(d, nulls) ==
    IF "instance" \in nulls THEN "HSDR_FINISH_ERROR_NULL"
    ELSE heatshrink_decoder_finish(d)

ArgCaps == PollCaps \cup {0}

InitArgs ==
    /\ \/ /\ hse = heatshrink_encoder_alloc(HEATSHRINK_MIN_WINDOW_BITS,
                                             HEATSHRINK_MIN_LOOKAHEAD_BITS)
          /\ hsd = NoInstance
          /\ X \in SmallInputs
          /\ sunk = 0 /\ comp = <<>>
          /\ pc = "enc_caller"
       \/ /\ hse = NoInstance
          /\ \E x \in SmallInputs :
                DecCase(<<HEATSHRINK_MIN_WINDOW_BITS,
                          HEATSHRINK_MIN_LOOKAHEAD_BITS, 2>>, x)
          /\ sunk = Len(X)
          /\ pc = "dec_caller"
    /\ dsunk = 0 /\ decomp = <<>>
    /\ call = NoCall /\ hist = NoHist

ArgEncSink(n, nulls) ==
    /\ pc = "enc_caller"
    /\ LET in_buf == SubSeq(X, sunk + 1, Min(sunk + n, Len(X)))
           r == heatshrink_encoder_sink_args(hse, in_buf, nulls)
       IN /\ hse' = r.hse
          /\ sunk' = sunk + r.accepted
          /\ call' = [op |-> "encoder_sink", size |-> Len(in_buf),
                       res |-> r.res, n |-> r.accepted, nulls |-> nulls]
    /\ UNCHANGED <<hsd, X, comp, dsunk, decomp, hist, pc>>

ArgEncPoll(cap, nulls) ==
    /\ pc = "enc_caller"
    /\ LET r == heatshrink_encoder_poll_args(hse, cap, nulls)
       IN /\ hse' = r.hse
          /\ comp' = comp \o r.out
          /\ call' = [op |-> "encoder_poll", size |-> cap, res |-> r.res,
                       n |-> Len(r.out), nulls |-> nulls]
    /\ UNCHANGED <<hsd, X, sunk, dsunk, decomp, hist, pc>>

ArgEncFinish(nulls) ==
    /\ pc = "enc_caller"
    /\ LET r == heatshrink_encoder_finish_args(hse, nulls)
       IN /\ hse' = r.hse
          /\ call' = [op |-> "encoder_finish", size |-> 0, res |-> r.res,
                       n |-> 0, nulls |-> nulls]
    /\ UNCHANGED <<hsd, X, sunk, comp, dsunk, decomp, hist, pc>>

ArgDecSink(n, nulls) ==
    /\ pc = "dec_caller"
    /\ dsunk < Len(comp)
    /\ LET in_buf == SubSeq(comp, dsunk + 1, Min(dsunk + n, Len(comp)))
           r == heatshrink_decoder_sink_args(hsd, in_buf, nulls)
       IN /\ hsd' = r.hsd
          /\ dsunk' = dsunk + r.accepted
          /\ call' = [op |-> "decoder_sink", size |-> Len(in_buf),
                       res |-> r.res, n |-> r.accepted, nulls |-> nulls]
    /\ UNCHANGED <<hse, X, sunk, comp, decomp, hist, pc>>

ArgDecPoll(cap, nulls) ==
    /\ pc = "dec_caller"
    /\ LET r == heatshrink_decoder_poll_args(hsd, cap, nulls)
       IN /\ hsd' = r.hsd
          /\ decomp' = decomp \o r.out
          /\ call' = [op |-> "decoder_poll", size |-> cap, res |-> r.res,
                       n |-> Len(r.out), nulls |-> nulls]
    /\ UNCHANGED <<hse, X, sunk, comp, dsunk, hist, pc>>

ArgDecFinish(nulls) ==
    /\ pc = "dec_caller"
    /\ call' = [op |-> "decoder_finish", size |-> 0,
                 res |-> heatshrink_decoder_finish_args(hsd, nulls),
                 n |-> 0, nulls |-> nulls]
    /\ UNCHANGED <<hse, hsd, X, sunk, comp, dsunk, decomp, hist, pc>>

NextArgs ==
    \/ \E n \in SinkSizes, nulls \in NullArgs : ArgEncSink(n, nulls)
    \/ \E cap \in ArgCaps, nulls \in NullArgs : ArgEncPoll(cap, nulls)
    \/ \E nulls \in {{}, {"instance"}} : ArgEncFinish(nulls)
    \/ \E n \in SinkSizes, nulls \in NullArgs : ArgDecSink(n, nulls)
    \/ \E cap \in PollCaps, nulls \in NullArgs : ArgDecPoll(cap, nulls)
    \/ \E nulls \in {{}, {"instance"}} : ArgDecFinish(nulls)

SpecArgs == InitArgs /\ [][NextArgs]_vars

(***************************************************************************)
(* SpecEncStep: the encoder of Spec with heatshrink_encoder_poll taken one *)
(* turn of its loop at a time.  While pc = "polling" the caller is inside  *)
(* poll, hist.oi is the output_info of the call and hse.state the state    *)
(* the next turn switches on.                                              *)
(***************************************************************************)
InitEncStep ==
    /\ \E cfg \in EncConfigs : hse = heatshrink_encoder_alloc(cfg[1], cfg[2])
    /\ hsd = NoInstance
    /\ X \in Inputs
    /\ sunk = 0 /\ comp = <<>> /\ dsunk = 0 /\ decomp = <<>>
    /\ call = NoCall /\ pc = "caller"
    /\ hist = [finished |-> FALSE, polled_since_sink |-> FALSE,
               fin_clean |-> FALSE, oi |-> [buf |-> <<>>, buf_size |-> 0]]

StepEncSink(n) ==
    /\ pc = "caller"
    /\ EncSink(n)

StepEncFinish ==
    /\ pc = "caller"
    /\ EncFinish

\* out_buf_size is not 0: the call enters the loop
StepEncPollCall(cap) ==
    /\ pc = "caller"
    /\ pc' = "polling"
    /\ hist' = [hist EXCEPT !.oi = [buf |-> <<>>, buf_size |-> cap],
                            !.polled_since_sink = TRUE]
    /\ call' = [op |-> "encoder_poll", size |-> cap, res |-> "RUNNING", n |-> 0]
    /\ UNCHANGED <<hse, hsd, X, sunk, comp, dsunk, decomp>>

StepEncPollTurn ==
    /\ pc = "polling"
    /\ LET s == encoder_poll_turn([hse |-> hse, oi |-> hist.oi, res |-> "RUNNING"])
       IN /\ hse' = s.hse
          /\ hist' = [hist EXCEPT !.oi = s.oi]
          /\ IF s.res = "RUNNING"
             THEN UNCHANGED <<pc, call, comp>>
             ELSE /\ pc' = "caller"
                  /\ comp' = comp \o s.oi.buf
                  /\ call' = [call EXCEPT !.res = s.res, !.n = Len(s.oi.buf)]
    /\ UNCHANGED <<hsd, X, sunk, dsunk, decomp>>

NextEncStep ==
    \/ \E n \in SinkSizes : StepEncSink(n)
    \/ StepEncFinish
    \/ \E cap \in PollCaps : StepEncPollCall(cap)
    \/ StepEncPollTurn

SpecEncStep == InitEncStep /\ [][NextEncStep]_vars

(***************************************************************************)
(* SpecDecStep: the decoder of SpecDec with heatshrink_decoder_poll taken  *)
(* one turn of its loop at a time.  While pc = "polling" the caller is     *)
(* inside poll, hist.oi is the output_info of the call and hsd.state the   *)
(* state the next turn switches on.                                        *)
(***************************************************************************)
InitDecStep ==
    /\ \E x \in SmallInputs : DecCase(<<HEATSHRINK_MIN_WINDOW_BITS,
                                         HEATSHRINK_MIN_LOOKAHEAD_BITS, 2>>, x)
    /\ hse = NoInstance
    /\ sunk = Len(X) /\ dsunk = 0 /\ decomp = <<>>
    /\ call = NoCall /\ pc = "caller"
    /\ hist = [finished |-> FALSE, polled_since_sink |-> FALSE,
               fin_clean |-> FALSE, oi |-> [buf |-> <<>>, buf_size |-> 0]]

StepSink(n) ==
    /\ pc = "caller"
    /\ DecSink(n)

StepPollCall(cap) ==
    /\ pc = "caller"
    /\ pc' = "polling"
    /\ hist' = [hist EXCEPT !.oi = [buf |-> <<>>, buf_size |-> cap]]
    /\ call' = [op |-> "decoder_poll", size |-> cap, res |-> "RUNNING", n |-> 0]
    /\ UNCHANGED <<hse, hsd, X, sunk, comp, dsunk, decomp>>

StepPollTurn ==
    /\ pc = "polling"
    /\ LET s == decoder_poll_turn([hsd |-> hsd, oi |-> hist.oi, res |-> "RUNNING"])
       IN /\ hsd' = s.hsd
          /\ hist' = [hist EXCEPT !.oi = s.oi]
          /\ IF s.res = "RUNNING"
             THEN UNCHANGED <<pc, call, decomp>>
             ELSE /\ pc' = "caller"
                  /\ decomp' = decomp \o s.oi.buf
                  /\ call' = [call EXCEPT !.res = s.res, !.n = Len(s.oi.buf)]
    /\ UNCHANGED <<hse, X, sunk, comp, dsunk>>

NextDecStep ==
    \/ \E n \in SinkSizes : StepSink(n)
    \/ \E cap \in PollCaps : StepPollCall(cap)
    \/ StepPollTurn

SpecDecStep == InitDecStep /\ [][NextDecStep]_vars

(***************************************************************************)
(* SpecPolls: the turns of the two poll loops, as in SpecEncStep and       *)
(* SpecDecStep: an encoder fed X, an encoder of the build with             *)
(* HEATSHRINK_USE_INDEX and the largest window that is offered a window of *)
(* input at once, or a decoder fed bytes of any kind.  hist.side tells     *)
(* which.  A poll call that has entered its loop goes on running: the      *)
(* turns are weakly fair.                                                  *)
(***************************************************************************)
PollDecConfigs == {<<4, 3, 2>>, <<9, 3, 1>>}
\* a word of memory that was allocated and never written, and reads as an
\* offset into the active half of the buffer
OffsetJunk == 40000

InitPolls ==
    /\ \/ /\ \E cfg \in EncConfigs :
                hse = heatshrink_encoder_alloc(cfg[1], cfg[2])
          /\ hsd = NoInstance
          /\ X \in SmallInputs /\ comp = <<>>
          /\ hist = [finished |-> FALSE, polled_since_sink |-> FALSE,
                     fin_clean |-> FALSE, oi |-> [buf |-> <<>>, buf_size |-> 0],
                     side |-> "encoder"]
       \/ /\ hse = heatshrink_encoder_alloc_USE_INDEX(
                         HEATSHRINK_MAX_WINDOW_BITS,
                         HEATSHRINK_MIN_LOOKAHEAD_BITS, OffsetJunk)
          /\ hsd = NoInstance
          /\ X = Periodic(<<0, 0, 0, 97, 0, 97, 255>>,
                          2 ^ HEATSHRINK_MAX_WINDOW_BITS)
          /\ comp = <<>>
          /\ hist = [finished |-> FALSE, polled_since_sink |-> FALSE,
                     fin_clean |-> FALSE, oi |-> [buf |-> <<>>, buf_size |-> 0],
                     side |-> "indexed"]
       \/ /\ \E cfg \in PollDecConfigs :
                hsd = heatshrink_decoder_alloc(cfg[3], cfg[1], cfg[2])
          /\ hse = NoInstance
          /\ X = <<>> /\ comp \in AdvStreams
          /\ hist = [finished |-> FALSE, polled_since_sink |-> FALSE,
                     fin_clean |-> FALSE, oi |-> [buf |-> <<>>, buf_size |-> 0],
                     side |-> "decoder"]
    /\ sunk = 0 /\ dsunk = 0 /\ decomp = <<>>
    /\ call = NoCall /\ pc = "caller"

EncoderTurn == hist.side \in {"encoder", "indexed"} /\ StepEncPollTurn
DecoderTurn == hist.side = "decoder" /\ StepPollTurn

NextPolls ==
    \/ hist.side = "encoder" /\ \E n \in SinkSizes : StepEncSink(n)
    \/ hist.side = "encoder" /\ StepEncFinish
    \/ hist.side = "indexed" /\ sunk < Len(X) /\ StepEncSink(Len(X))
    \/ hist.side = "encoder" /\ \E cap \in PollCaps : StepEncPollCall(cap)
    \/ hist.side = "indexed" /\ StepEncPollCall(BigCap)
    \/ EncoderTurn
    \/ hist.side = "decoder" /\ \E n \in SinkSizes : StepSink(n)
    \/ hist.side = "decoder" /\ \E cap \in PollCaps : StepPollCall(cap)
    \/ DecoderTurn

SpecPolls ==
    InitPolls /\ [][NextPolls]_vars
        /\ WF_vars(EncoderTurn) /\ WF_vars(DecoderTurn)

(***************************************************************************)
(* SpecAdvWide: the caller of SpecAdv on a decoder whose symbols put a tag *)
(* bit at the end of a byte (W = 11, L = 3: a back-reference has 15 bits), *)
(* so that an index request of more than 8 bits starts on a byte boundary. *)
(***************************************************************************)
AdvWideConfigs == {<<11, 3, 4>>}
\* a back-reference of the lowest fields and the tag bit of a second one,
\* then any bytes
AdvWideStreams == {<<0, 0>> \o s : s \in [1 .. MaxAdvLen -> {0, 255}]}

InitAdvWide ==
    /\ \E cfg \in AdvWideConfigs :
          hsd = heatshrink_decoder_alloc(cfg[3], cfg[1], cfg[2])
    /\ comp \in AdvWideStreams
    /\ X = <<>> /\ hse = NoInstance
    /\ sunk = 0 /\ dsunk = 0 /\ decomp = <<>>
    /\ call = NoCall /\ hist = NoHist /\ pc = "caller"

SpecAdvWide == InitAdvWide /\ [][NextDec]_vars

(***************************************************************************)
(* SpecBits: get_bits under the requests the decoder states make of it     *)
(* (1 bit for a tag, 8 for a literal, W for an index, L for a count), in   *)
(* any order, between sinks of a stream of any bytes.  hist.bits counts    *)
(* the bits that the successful requests have returned; hist.pending is    *)
(* the size of the request that met an underflow and is to be retried, the *)
(* state that made it being kept, or 0.                                    *)
(***************************************************************************)
BitConfigs == {<<4, 3, 2>>, <<9, 3, 1>>, <<9, 9, 2>>}
BitStreams == [1 .. MaxAdvLen -> {0, 165, 255}]

\* the value of bits pos + 1 .. pos + k of stream s, first bit highest
RECURSIVE StreamBits(_, _, _)
StreamBits(s, pos, k) ==
    IF k = 0 THEN 0
    ELSE 2 * StreamBits(s, pos, k - 1)
         + Bit(s[((pos + k - 1) \div 8) + 1], 7 - ((pos + k - 1) % 8))

InitBits ==
    /\ \E cfg \in BitConfigs :
          hsd = heatshrink_decoder_alloc(cfg[3], cfg[1], cfg[2])
    /\ comp \in BitStreams
    /\ X = <<>> /\ hse = NoInstance
    /\ sunk = 0 /\ dsunk = 0 /\ decomp = <<>>
    /\ call = NoCall /\ pc = "caller"
    /\ hist = [finished |-> FALSE, polled_since_sink |-> FALSE,
               fin_clean |-> FALSE, bits |-> 0, pending |-> 0]

\* one of st_input_available, st_yield_literal, st_backref_index and
\* st_backref_count asks for its bits
BitsGet(count) ==
    /\ hist.pending \in {0, count}
    /\ LET r == get_bits(hsd, count)
       IN /\ hsd' = r.hsd
          /\ call' = [op |-> "get_bits", size |-> count, res |-> r.res,
                       n |-> hist.bits]
          /\ hist' = [hist EXCEPT !.bits = IF r.res = MINUS_ONE THEN @
                                           ELSE @ + count,
                                  !.pending = IF r.res = MINUS_ONE THEN count
                                              ELSE 0]
    /\ UNCHANGED <<hse, X, sunk, comp, dsunk, decomp, pc>>

NextBits ==
    \/ \E n \in SinkSizes : DecSink(n)
    \/ \E count \in {1, 8, BACKREF_INDEX_BITS(hsd), BACKREF_COUNT_BITS(hsd)} :
          BitsGet(count)

SpecBits == InitBits /\ [][NextBits]_vars

(***************************************************************************)
(* SpecReset: the caller of Spec on one encoder, or of SpecDec on one      *)
(* decoder, calls reset at some time and starts over on the same input     *)
(* (pc = "after").  From then on every call is made to the instance that   *)
(* was reset and to a twin, hist.twin, that was allocated with the same    *)
(* configuration when reset was called; hist.same tells whether every call *)
(* so far returned the same code, count and bytes from both.               *)
(***************************************************************************)
InitReset ==
    /\ \/ /\ hse = heatshrink_encoder_alloc(HEATSHRINK_MIN_WINDOW_BITS,
                                             HEATSHRINK_MIN_LOOKAHEAD_BITS)
          /\ hsd = NoInstance
          /\ X \in SmallInputs
          /\ sunk = 0 /\ comp = <<>>
          /\ pc = "enc_before"
       \/ /\ hse = NoInstance
          /\ \E x \in SmallInputs :
                DecCase(<<HEATSHRINK_MIN_WINDOW_BITS,
                          HEATSHRINK_MIN_LOOKAHEAD_BITS, 2>>, x)
          /\ sunk = Len(X)
          /\ pc = "dec_before"
    /\ dsunk = 0 /\ decomp = <<>>
    /\ call = NoCall
    /\ hist = [finished |-> FALSE, polled_since_sink |-> FALSE,
               fin_clean |-> FALSE, twin |-> NoInstance, same |-> TRUE]

EncReset ==
    /\ pc = "enc_before"
    /\ hse' = heatshrink_encoder_reset(hse)
    /\ sunk' = 0 /\ comp' = <<>>
    /\ hist' = [hist EXCEPT !.twin = heatshrink_encoder_alloc(hse.window_sz2,
                                                             hse.lookahead_sz2)]
    /\ call' = [op |-> "encoder_reset", size |-> 0, res |-> "none", n |-> 0]
    /\ pc' = "enc_after"
    /\ UNCHANGED <<hsd, X, dsunk, decomp>>

DecReset ==
    /\ pc = "dec_before"
    /\ hsd' = heatshrink_decoder_reset(hsd)
    /\ dsunk' = 0 /\ decomp' = <<>>
    /\ hist' = [hist EXCEPT !.twin = heatshrink_decoder_alloc(hsd.input_buffer_size,
                                                             hsd.window_sz2,
                                                             hsd.lookahead_sz2)]
    /\ call' = [op |-> "decoder_reset", size |-> 0, res |-> "none", n |-> 0]
    /\ pc' = "dec_after"
    /\ UNCHANGED <<hse, X, sunk, comp>>

TwinEncSink(n) ==
    /\ pc = "enc_after"
    /\ LET in_buf == SubSeq(X, sunk + 1, Min(sunk + n, Len(X)))
           r == heatshrink_encoder_sink(hse, in_buf)
           t == heatshrink_encoder_sink(hist.twin, in_buf)
       IN /\ hse' = r.hse
          /\ sunk' = sunk + r.accepted
          /\ call' = [op |-> "encoder_sink", size |-> Len(in_buf),
                       res |-> r.res, n |-> r.accepted]
          /\ hist' = [hist EXCEPT !.twin = t.hse,
                                  !.same = hist.same /\ r.res = t.res
                                           /\ r.accepted = t.accepted]
    /\ UNCHANGED <<hsd, X, comp, dsunk, decomp, pc>>

TwinEncPoll(cap) ==
    /\ pc = "enc_after"
    /\ LET r == heatshrink_encoder_poll(hse, cap)
           t == heatshrink_encoder_poll(hist.twin, cap)
       IN /\ hse' = r.hse
          /\ comp' = comp \o r.out
          /\ call' = [op |-> "encoder_poll", size |-> cap, res |-> r.res,
                       n |-> Len(r.out)]
          /\ hist' = [hist EXCEPT !.twin = t.hse,
                                  !.same = hist.same /\ r.res = t.res
                                           /\ r.out = t.out]
    /\ UNCHANGED <<hsd, X, sunk, dsunk, decomp, pc>>

TwinEncFinish ==
    /\ pc = "enc_after"
    /\ LET r == heatshrink_encoder_finish(hse)
           t == heatshrink_encoder_finish(hist.twin)
       IN /\ hse' = r.hse
          /\ call' = [op |-> "encoder_finish", size |-> 0, res |-> r.res,
                       n |-> 0]
          /\ hist' = [hist EXCEPT !.twin = t.hse,
                                  !.same = hist.same /\ r.res = t.res]
    /\ UNCHANGED <<hsd, X, sunk, comp, dsunk, decomp, pc>>

TwinDecSink(n) ==
    /\ pc = "dec_after"
    /\ dsunk < Len(comp)
    /\ LET in_buf == SubSeq(comp, dsunk + 1, Min(dsunk + n, Len(comp)))
           r == heatshrink_decoder_sink(hsd, in_buf)
           t == heatshrink_decoder_sink(hist.twin, in_buf)
       IN /\ hsd' = r.hsd
          /\ dsunk' = dsunk + r.accepted
          /\ call' = [op |-> "decoder_sink", size |-> Len(in_buf),
                       res |-> r.res, n |-> r.accepted]
          /\ hist' = [hist EXCEPT !.twin = t.hsd,
                                  !.same = hist.same /\ r.res = t.res
                                           /\ r.accepted = t.accepted]
    /\ UNCHANGED <<hse, X, sunk, comp, decomp, pc>>

TwinDecPoll(cap) ==
    /\ pc = "dec_after"
    /\ LET r == heatshrink_decoder_poll(hsd, cap)
           t == heatshrink_decoder_poll(hist.twin, cap)
       IN /\ hsd' = r.hsd
          /\ decomp' = decomp \o r.out
          /\ call' = [op |-> "decoder_poll", size |-> cap, res |-> r.res,
                       n |-> Len(r.out)]
          /\ hist' = [hist EXCEPT !.twin = t.hsd,
                                  !.same = hist.same /\ r.res = t.res
                                           /\ r.out = t.out]
    /\ UNCHANGED <<hse, X, sunk, comp, dsunk, pc>>

TwinDecFinish ==
    /\ pc = "dec_after"
    /\ call' = [op |-> "decoder_finish", size |-> 0,
                 res |-> heatshrink_decoder_finish(hsd), n |-> 0]
    /\ hist' = [hist EXCEPT !.same = hist.same
                              /\ heatshrink_decoder_finish(hsd)
                                 = heatshrink_decoder_finish(hist.twin)]
    /\ UNCHANGED <<hse, hsd, X, sunk, comp, dsunk, decomp, pc>>

NextReset ==
    \/ pc = "enc_before" /\ Next
    \/ pc = "dec_before" /\ NextDec
    \/ EncReset
    \/ DecReset
    \/ \E n \in SinkSizes : TwinEncSink(n)
    \/ \E cap \in PollCaps : TwinEncPoll(cap)
    \/ TwinEncFinish
    \/ \E n \in SinkSizes : TwinDecSink(n)
    \/ \E cap \in PollCaps : TwinDecPoll(cap)
    \/ TwinDecFinish

SpecReset == InitReset /\ [][NextReset]_vars

(***************************************************************************)
(* SpecCost: the caller of SpecIdx over encoders without the index, for    *)
(* the small configurations and for one whose back-reference (1 + W + L    *)
(* bits) is longer than three literals (27 bits).  The input of the latter *)
(* repeats three bytes, each time followed by a byte not seen before, so   *)
(* that every match is three bytes long.                                   *)
(***************************************************************************)
MaxUnits == 8

Triples(k) == [i \in 1 .. 4 * k |-> IF i % 4 = 0 THEN i \div 4 ELSE 96 + (i % 4)]

CostCases ==
    (EncConfigs \X Inputs)
    \cup ({<<HEATSHRINK_MAX_WINDOW_BITS, HEATSHRINK_MAX_WINDOW_BITS - 1>>}
          \X {Triples(MaxUnits)})

InitCost ==
    /\ \E c \in CostCases :
          /\ hse = heatshrink_encoder_alloc(c[1][1], c[1][2])
          /\ X = c[2]
    /\ hsd = NoInstance
    /\ sunk = 0 /\ comp = <<>> /\ dsunk = 0 /\ decomp = <<>>
    /\ call = NoCall /\ hist = NoHist
    /\ pc = "caller"

SpecCost == InitCost /\ [][NextIdx]_vars

(***************************************************************************)
(* Claims about the encoder under a free caller (Spec).                    *)
(***************************************************************************)

\* C9: whenever IS_FINISHING is set or the state is not NOT_FULL, an encoder
\* sink call returns ERR_MISUSE, accepts no byte and leaves every field of
\* the encoder unchanged.
SinkMisuse ==
    [][ (call'.op = "encoder_sink"
           /\ (is_finishing(hse) \/ hse.state # HSES_NOT_FULL))
        => /\ call'.res = "HSER_SINK_ERROR_MISUSE"
           /\ call'.n = 0
           /\ sunk' = sunk
           /\ hse' = hse ]_vars

\* a non-empty sink was refused after finish, in the middle of the final polls
SinkMisuseSeen ==
    /\ call.op = "encoder_sink" /\ call.size > 0
    /\ call.res = "HSER_SINK_ERROR_MISUSE"
    /\ is_finishing(hse)
    /\ hse.state \notin {HSES_NOT_FULL, HSES_FILLED, HSES_DONE}

\* C10: in NOT_FULL without IS_FINISHING, sink returns OK, accepts
\* min(len, 2^W - input_size) bytes, appends exactly those bytes in order
\* after the bytes already in the active half (touching nothing else), and
\* moves to FILLED exactly when no free space is left after the copy.
SinkAcceptance ==
    [][ (call'.op = "encoder_sink"
           /\ hse.state = HSES_NOT_FULL /\ ~is_finishing(hse))
        => LET free == get_input_buffer_size(hse) - hse.input_size
               n == Min(call'.size, free)
               at == get_input_offset(hse) + hse.input_size
           IN /\ call'.res = "HSER_SINK_OK"
              /\ call'.n = n /\ sunk' = sunk + n
              /\ hse'.input_size = hse.input_size + n
              /\ \A i \in DOMAIN hse.buffer :
                    hse'.buffer[i] = IF i >= at /\ i < at + n
                                     THEN X[sunk + 1 + (i - at)]
                                     ELSE hse.buffer[i]
              /\ hse'.state = IF free - n = 0 THEN HSES_FILLED
                              ELSE HSES_NOT_FULL
              /\ hse' = [hse EXCEPT !.buffer = hse'.buffer,
                                    !.input_size = hse'.input_size,
                                    !.state = hse'.state] ]_vars

\* a sink of 3 offered bytes filled the active half exactly, after earlier
\* sinks had put bytes there
SinkAcceptanceSeen ==
    /\ call.op = "encoder_sink" /\ call.res = "HSER_SINK_OK"
    /\ call.size = 3 /\ call.n = 3 /\ sunk > 3
    /\ hse.state = HSES_FILLED /\ ~is_finishing(hse)
    /\ hse.input_size = get_input_buffer_size(hse)

\* C8 as stated: as long as finish has not been called, no sink call
\* returns an error, whatever the interleaving of sink and poll.
SinkNeverFailsBeforeFinish ==
    (call.op = "encoder_sink" /\ ~hist.finished) => call.res = "HSER_SINK_OK"

\* C8 amended: as long as finish has not been called, a sink call returns
\* OK exactly when the encoder is in NOT_FULL when it is made (ERR_MISUSE
\* otherwise), and a poll that returns EMPTY leaves the encoder in NOT_FULL,
\* so that the sink that follows it is accepted.
SinkBeforeFinish ==
    [][ ~hist.finished =>
          /\ call'.op = "encoder_sink" =>
               /\ call'.res \in {"HSER_SINK_OK", "HSER_SINK_ERROR_MISUSE"}
               /\ call'.res = "HSER_SINK_OK" <=> hse.state = HSES_NOT_FULL
          /\ (call'.op = "encoder_poll" /\ call'.res = "HSER_POLL_EMPTY")
               => hse'.state = HSES_NOT_FULL ]_vars

\* before finish, a sink was refused while a filled window was being polled
SinkBeforeFinishSeen ==
    /\ ~hist.finished /\ call.op = "encoder_sink" /\ call.size > 0
    /\ call.res = "HSER_SINK_ERROR_MISUSE"
    /\ hse.state \notin {HSES_NOT_FULL, HSES_FILLED}

\* C6: an encoder poll with valid arguments returns MORE exactly when it
\* stopped on a full output buffer in a state that could not progress, and
\* EMPTY only in NOT_FULL (more input required) or DONE.
EncoderPollCodes ==
    call.op = "encoder_poll" =>
        /\ call.res \in {"HSER_POLL_MORE", "HSER_POLL_EMPTY"}
        /\ call.res = "HSER_POLL_MORE" =>
              (call.n = call.size /\ hse.state \notin {HSES_NOT_FULL, HSES_DONE})
        /\ call.res = "HSER_POLL_EMPTY" =>
              hse.state \in {HSES_NOT_FULL, HSES_DONE}

\* C3: with finish called right after the last sunk byte, the bytes the
\* polls returned, once the encoder is DONE, are the same for every
\* partitioning of the input into sink chunks and every sequence of poll
\* capacities: they are the bytes of the one-pass encoding of what was sunk.
EncoderIncremental ==
    (hse.state = HSES_DONE /\ hist.fin_clean)
        => comp = compress(hse.window_sz2, hse.lookahead_sz2, SubSeq(X, 1, sunk))

\* an input longer than the window, sunk in several calls, polled out to
\* DONE with a last poll of capacity 1
EncoderIncrementalSeen ==
    /\ hse.state = HSES_DONE /\ hist.fin_clean
    /\ sunk = Len(X) /\ sunk > 16
    /\ call.op = "encoder_poll" /\ call.size = 1 /\ call.n = 1

\* C5: after finish has been called, a caller that keeps polling with a
\* non-empty output buffer eventually brings the encoder to DONE, where it
\* stays; a finish call returns MORE before that point and DONE after it.
EncoderCompletion ==
    /\ [](call.op = "encoder_finish" =>
            call.res = IF hse.state = HSES_DONE THEN "HSER_FINISH_DONE"
                       ELSE "HSER_FINISH_MORE")
    /\ [][hse.state = HSES_DONE => hse'.state = HSES_DONE]_vars
    /\ (hist.finished ~> hse.state = HSES_DONE)

\* finish answered DONE for an input longer than the window, all of it sunk
EncoderCompletionSeen ==
    /\ call.op = "encoder_finish" /\ call.res = "HSER_FINISH_DONE"
    /\ hse.state = HSES_DONE /\ sunk = Len(X) /\ sunk > 16 /\ Len(comp) > 0

(***************************************************************************)
(* Claims about the decoder under a free caller (SpecDec).                 *)
(***************************************************************************)
IsPrefix(s, t) == Len(s) <= Len(t) /\ s = SubSeq(t, 1, Len(s))

\* the whole stream has been sunk and the last call, a poll, returned EMPTY
StreamDrained ==
    /\ dsunk = Len(comp)
    /\ call.op = "decoder_poll" /\ call.res = "HSDR_POLL_EMPTY"

\* C2: whatever the sink chunks, the input buffer size and the poll
\* capacities, the bytes the decoder polls returned are a prefix of X, and
\* are X once the whole stream is sunk and a poll has returned EMPTY.
DecoderIncremental ==
    /\ IsPrefix(decomp, X)
    /\ StreamDrained => decomp = X

\* C4: once the whole stream is sunk and poll has returned EMPTY, the
\* decoder has emitted exactly |X| bytes and decoder finish returns DONE.
PaddingIgnorable ==
    StreamDrained =>
        /\ Len(decomp) = Len(X)
        /\ heatshrink_decoder_finish(hsd) = "HSDR_FINISH_DONE"

\* C7: a decoder poll returns MORE only when it filled the output buffer
\* and stopped in a state that a step without output space leaves as it
\* is, and EMPTY only when a poll with free output space made right after
\* it would write no byte.
DecoderPollCodes ==
    call.op = "decoder_poll" =>
        /\ call.res \in {"HSDR_POLL_MORE", "HSDR_POLL_EMPTY"}
        /\ call.res = "HSDR_POLL_MORE" =>
              /\ call.n = call.size
              /\ decoder_poll_step(hsd, [buf |-> <<>>, buf_size |-> 0]).hsd.state
                    = hsd.state
        /\ call.res = "HSDR_POLL_EMPTY" =>
              heatshrink_decoder_poll(hsd, BigCap).out = <<>>

\* a poll of capacity 2 stopped, full, in the middle of a back-reference
DecoderPollCodesSeen ==
    /\ call.op = "decoder_poll" /\ call.res = "HSDR_POLL_MORE"
    /\ call.size = 2 /\ call.n = 2
    /\ hsd.state = HSDS_YIELD_BACKREF /\ hsd.output_count > 0

(***************************************************************************)
(* Claims about the round trip of compress_and_expand_and_check (SpecRT).  *)
(***************************************************************************)

\* C1: when the driver has sunk X, finished, polled the encoder out, sunk
\* the produced bytes into the decoder and polled it until EMPTY, the
\* decoder's output is exactly X.
RoundTrip ==
    pc \in {"check", "pass", "fail"} => decomp = X

\* C11: a decoder sink accepts exactly min(len, IBS - input_size) bytes,
\* appends them in order after the bytes of the input region and returns OK,
\* changing nothing else but the state, which goes from EMPTY to
\* INPUT_AVAILABLE with input_index = 0; when IBS - input_size = 0 it returns
\* FULL, accepts nothing and leaves the decoder unchanged.
DecoderSinkAcceptance ==
    [][ call'.op = "decoder_sink" =>
          LET rem == hsd.input_buffer_size - hsd.input_size
              n == Min(call'.size, rem)
          IN IF rem = 0
             THEN /\ call'.res = "HSDR_SINK_FULL" /\ call'.n = 0
                  /\ hsd' = hsd /\ dsunk' = dsunk
             ELSE /\ call'.res = "HSDR_SINK_OK" /\ call'.n = n
                  /\ dsunk' = dsunk + n
                  /\ hsd'.input_size = hsd.input_size + n
                  /\ \A i \in DOMAIN hsd.buffers :
                        hsd'.buffers[i] =
                          IF i >= hsd.input_size /\ i < hsd.input_size + n
                          THEN comp[dsunk + 1 + (i - hsd.input_size)]
                          ELSE hsd.buffers[i]
                  /\ IF hsd.state = HSDS_EMPTY
                     THEN hsd'.state = HSDS_INPUT_AVAILABLE /\ hsd'.input_index = 0
                     ELSE hsd'.state = hsd.state /\ hsd'.input_index = hsd.input_index
                  /\ hsd' = [hsd EXCEPT !.buffers = hsd'.buffers,
                                        !.input_size = hsd'.input_size,
                                        !.state = hsd'.state,
                                        !.input_index = hsd'.input_index] ]_vars

\* a sink of 3 offered bytes took only the one that fitted, after a byte
\* that was already in the input region
DecoderSinkAcceptanceSeen ==
    /\ call.op = "decoder_sink" /\ call.res = "HSDR_SINK_OK"
    /\ call.size = 3 /\ call.n = 1
    /\ hsd.input_size = 2 /\ hsd.input_size = hsd.input_buffer_size

\* C12: an encoder finish sets IS_FINISHING, moves NOT_FULL to FILLED and
\* changes nothing else, returns DONE iff the state it leaves is DONE and
\* MORE otherwise; a second finish right after it changes nothing and
\* returns the same code.
EncoderFinish ==
    [][ call'.op = "encoder_finish" =>
          /\ hse' = [hse EXCEPT !.flags = hse.flags \cup {FLAG_IS_FINISHING},
                                !.state = IF hse.state = HSES_NOT_FULL
                                          THEN HSES_FILLED ELSE hse.state]
          /\ call'.res = IF hse'.state = HSES_DONE THEN "HSER_FINISH_DONE"
                         ELSE "HSER_FINISH_MORE"
          /\ heatshrink_encoder_finish(hse').hse = hse'
          /\ heatshrink_encoder_finish(hse').res = call'.res
          /\ UNCHANGED <<sunk, comp>> ]_vars

\* finish came while bytes were waiting in a half that was not full
EncoderFinishSeen ==
    /\ call.op = "encoder_finish" /\ call.res = "HSER_FINISH_MORE"
    /\ hse.state = HSES_FILLED /\ is_finishing(hse)
    /\ hse.input_size > 0 /\ hse.input_size < get_input_buffer_size(hse)

\* C18: while finish has not been called and the state is NOT_FULL, an
\* encoder poll writes no byte, returns EMPTY and leaves the encoder as it
\* was, however many bytes have been sunk.
NoOutputBeforeFullWindow ==
    [][ (call'.op = "encoder_poll" /\ hse.state = HSES_NOT_FULL
         /\ ~is_finishing(hse)) =>
          /\ call'.res = "HSER_POLL_EMPTY"
          /\ call'.n = 0
          /\ comp' = comp
          /\ hse' = hse ]_vars

\* a poll that found bytes waiting in a half that was not full
NoOutputBeforeFullWindowSeen ==
    /\ call.op = "encoder_poll" /\ call.res = "HSER_POLL_EMPTY"
    /\ hse.state = HSES_NOT_FULL /\ ~is_finishing(hse)
    /\ sunk > 0 /\ hse.input_size = sunk
    /\ hse.input_size < get_input_buffer_size(hse)
    /\ comp = <<>>

\* C19: once the encoder state is DONE every sink, poll and finish leaves
\* it DONE: poll returns EMPTY and writes no byte, finish returns DONE and
\* sink returns ERROR_MISUSE (and takes no byte).
DoneIsTerminal ==
    [][ hse.state = HSES_DONE =>
          /\ hse'.state = HSES_DONE
          /\ comp' = comp /\ sunk' = sunk
          /\ call'.op = "encoder_poll" =>
                call'.res = "HSER_POLL_EMPTY" /\ call'.n = 0
          /\ call'.op = "encoder_finish" => call'.res = "HSER_FINISH_DONE"
          /\ call'.op = "encoder_sink" =>
                call'.res = "HSER_SINK_ERROR_MISUSE" /\ call'.n = 0 ]_vars

\* bytes were offered to an encoder that was DONE, after output was written
DoneIsTerminalSeen ==
    /\ hse.state = HSES_DONE
    /\ call.op = "encoder_sink" /\ call.size > 0
    /\ call.res = "HSER_SINK_ERROR_MISUSE"
    /\ comp # <<>> /\ sunk < Len(X)

\* C20: when the encoder is DONE, the bytes it has produced for the n bytes
\* it was given number at most n + n/2 + 4 (integer division).
ExpansionCeiling ==
    hse.state = HSES_DONE => Len(comp) <= sunk + (sunk \div 2) + 4

\* an input that came out longer than it went in
ExpansionCeilingSeen ==
    /\ hse.state = HSES_DONE
    /\ sunk >= 8 /\ Len(comp) > sunk

(***************************************************************************)
(* Claims about the stream (SpecRT).                                       *)
(***************************************************************************)
\* bit k of the stream s (k from 0), most significant bit of each byte first
BitAt(s, k) == Bit(s[(k \div 8) + 1], 7 - (k % 8))

\* the n bits of s from bit k on, read as a number, the first bit the highest
RECURSIVE Field(_, _, _)
Field(s, k, n) ==
    IF n = 0 THEN 0 ELSE 2 * Field(s, k, n - 1) + BitAt(s, k + n - 1)

\* out followed by count bytes, each the byte index places before it (a
\* place before the first byte holds 0)
RECURSIVE ExpandBackref(_, _, _)
ExpandBackref(out, index, count) ==
    IF count = 0 THEN out
    ELSE ExpandBackref(Append(out, IF Len(out) + 1 - index >= 1
                                   THEN out[Len(out) + 1 - index] ELSE 0),
                       index, count - 1)

\* s read from bit k on as symbols: a literal is bit 1 and the 8 bits of a
\* byte, a back-reference is bit 0, W bits of index - 1 and L bits of
\* length - 1; fewer than 8 bits left over are the padding and must be 0.
\* p is [out: the bytes the symbols stand for, nlit, nbr: the symbols read].
RECURSIVE ParseSymbols(_, _, _, _, _)
ParseSymbols(s, k, W, L, p) ==
    LET rem == 8 * Len(s) - k
        bad == [ok |-> FALSE, bits |-> k, out |-> p.out, nlit |-> p.nlit,
                nbr |-> p.nbr, overlap |-> p.overlap]
    IN IF rem < 8
       THEN [ok |-> \A j \in k .. (8 * Len(s) - 1) : BitAt(s, j) = 0,
             bits |-> k, out |-> p.out, nlit |-> p.nlit, nbr |-> p.nbr,
             overlap |-> p.overlap]
       ELSE IF BitAt(s, k) = 1
       THEN IF rem < 9 THEN bad
            ELSE ParseSymbols(s, k + 9, W, L,
                   [p EXCEPT !.out = Append(p.out, Field(s, k + 1, 8)),
                             !.nlit = p.nlit + 1])
       ELSE IF rem < 1 + W + L THEN bad
            ELSE ParseSymbols(s, k + 1 + W + L, W, L,
                   [p EXCEPT !.out = ExpandBackref(p.out, Field(s, k + 1, W) + 1,
                                                   Field(s, k + 1 + W, L) + 1),
                             !.nbr = p.nbr + 1,
                             !.overlap = p.overlap \/
                                 Field(s, k + 1 + W, L) > Field(s, k + 1, W)])

Symbols(s, W, L) ==
    ParseSymbols(s, 0, W, L, [out |-> <<>>, nlit |-> 0, nbr |-> 0,
                              overlap |-> FALSE])

\* C13: the complete encoder output, read most significant bit first, is
\* the concatenation of symbols (literal: 1 and 8 bits; back-reference: 0,
\* W bits of index - 1, L bits of length - 1) that stand for the input,
\* followed by fewer than 8 zero bits; it has ceil(symbol bits / 8) bytes.
WireFormat ==
    pc \in {"dec_sink", "dec_poll", "check", "pass", "fail"} =>
        LET p == Symbols(comp, hse.window_sz2, hse.lookahead_sz2)
        IN /\ p.ok
           /\ p.out = X
           /\ Len(comp) = (p.bits + 7) \div 8

\* a complete stream with an index field of 9 bits, that holds literals and
\* back-references and ends in padding bits
WireFormatSeen ==
    /\ pc = "dec_sink" /\ sunk = Len(X) /\ hse.state = HSES_DONE
    /\ hse.window_sz2 = 9
    /\ LET p == Symbols(comp, hse.window_sz2, hse.lookahead_sz2)
       IN p.nlit > 0 /\ p.nbr > 0 /\ p.bits % 8 # 0

(***************************************************************************)
(* Claims about the decoder fed arbitrary bytes (SpecAdv).                 *)
(***************************************************************************)
\* C14: whatever bytes are sunk, in whatever chunks, and whatever the poll
\* capacities, input_index <= input_size <= IBS, no read of the input
\* region is at or above input_size, no window access is outside
\* [0, 2^W), and no poll writes more than the capacity of its buffer.
DecoderMemorySafe ==
    /\ hsd.input_index <= hsd.input_size
    /\ hsd.input_size <= hsd.input_buffer_size
    /\ ~hsd.bad_access
    /\ call.op = "decoder_poll" => call.n <= call.size

\* a back-reference read from bytes no encoder wrote was copied out, the
\* poll filling its buffer before the copy was over
DecoderMemorySafeSeen ==
    /\ call.op = "decoder_poll" /\ call.res = "HSDR_POLL_MORE"
    /\ call.n = call.size
    /\ hsd.state = HSDS_YIELD_BACKREF /\ hsd.output_count > 0
    /\ hsd.output_index = 2 ^ hsd.window_sz2

CompressDriver ==
    pc \in {"exit_0", "exit_1"} =>
        /\ pc = "exit_0" /\ call.res = "HSER_FINISH_DONE"
        /\ Symbols(comp, WINDOW_SIZE, LOOKAHEAD_SIZE).ok
        /\ Symbols(comp, WINDOW_SIZE, LOOKAHEAD_SIZE).out = X

(***************************************************************************)
(* Claims about the build with the search index (SpecIdx).                 *)
(***************************************************************************)

\* C16: every search of the build with HEATSHRINK_USE_INDEX returns the
\* match position and length that the linear scan returns on the same
\* buffer, for every window size up to HEATSHRINK_MAX_WINDOW_BITS.
IndexDeterminism == use_index(hse) => ~hse.index_diverged

\* C24: whenever the encoder is in NOT_FULL the active half has free
\* space: input_size < 2^W.
NotFullHasSpace ==
    hse.state = HSES_NOT_FULL => hse.input_size < 2 ^ hse.window_sz2

\* C31: between API calls input_size <= 2^W, match_scan_index <=
\* input_size, and bit_index is a single bit of a byte.
EncoderStateInvariants ==
    /\ hse.input_size <= 2 ^ hse.window_sz2
    /\ hse.match_scan_index <= hse.input_size
    /\ hse.bit_index \in {128, 64, 32, 16, 8, 4, 2, 1}

\* a poll stopped with a full window scanned to its last byte and a
\* partly filled output byte
EncoderStateInvariantsSeen ==
    /\ call.op = "encoder_poll"
    /\ hse.input_size = 2 ^ hse.window_sz2
    /\ hse.match_scan_index = hse.input_size
    /\ hse.bit_index \in {64, 32, 16, 8, 4, 2, 1}
    /\ comp # <<>>

(***************************************************************************)
(* Claims about compress_and_expand_and_check that keeps running           *)
(* (SpecRTFair).                                                           *)
(***************************************************************************)
\* C32: when the input is longer than 2^W bytes, the driver that sinks what
\* is left and then polls while poll returns MORE gets every input byte
\* accepted in the end.
InputEventuallyAccepted ==
    (Len(X) > 2 ^ hse.window_sz2) => <>(sunk = Len(X))

(***************************************************************************)
(* Claims about the cost of the symbols (SpecCost).                        *)
(***************************************************************************)
\* n + ceil(n/8) + 1
LiteralCost(n) == n + ((n + 7) \div 8) + 1

\* C21 (as stated): when the encoder is DONE, the bytes it has produced for
\* the n bytes it was given number at most n + ceil(n/8) + 1, for every
\* configuration.
NonExpansion ==
    hse.state = HSES_DONE => Len(comp) <= LiteralCost(sunk)

\* C21: when the encoder is DONE, the bytes it has produced for the n bytes
\* it was given number at most n + ceil(n/8) + 1, for every configuration
\* whose back-reference is not longer than three literals (W + L <= 26).
NonExpansionShortBackref ==
    (hse.state = HSES_DONE /\ hse.window_sz2 + hse.lookahead_sz2 <= 26)
        => Len(comp) <= LiteralCost(sunk)

\* an input that came out as literals only: 9 bits for each byte
NonExpansionShortBackrefSeen ==
    /\ hse.state = HSES_DONE
    /\ hse.window_sz2 + hse.lookahead_sz2 <= 26
    /\ sunk >= 3 /\ Len(comp) = sunk + ((sunk + 7) \div 8)

(***************************************************************************)
(* Claims about the arguments of the calls (SpecArgs).                     *)
(***************************************************************************)
NullCodes == {"HSER_SINK_ERROR_NULL", "HSER_POLL_ERROR_NULL",
              "HSER_FINISH_ERROR_NULL", "HSDR_SINK_ERROR_NULL",
              "HSDR_POLL_ERROR_NULL", "HSDR_FINISH_ERROR_NULL"}

\* the ERROR_NULL code of the function a call was made to
NullCodeOf(op) ==
    CASE op = "encoder_sink" -> "HSER_SINK_ERROR_NULL"
      [] op = "encoder_poll" -> "HSER_POLL_ERROR_NULL"
      [] op = "encoder_finish" -> "HSER_FINISH_ERROR_NULL"
      [] op = "decoder_sink" -> "HSDR_SINK_ERROR_NULL"
      [] op = "decoder_poll" -> "HSDR_POLL_ERROR_NULL"
      [] op = "decoder_finish" -> "HSDR_FINISH_ERROR_NULL"

\* C22: a call with a NULL pointer argument returns the ERROR_NULL code of
\* its function, an encoder poll with an output buffer of size 0 returns
\* ERROR_MISUSE, and a call that returns one of these leaves the instance,
\* the input taken and the output given as they were.
ArgumentMisuse ==
    [][ /\ call'.nulls # {} => call'.res = NullCodeOf(call'.op)
        /\ (call'.op = "encoder_poll" /\ call'.nulls = {} /\ call'.size = 0)
              => call'.res = "HSER_POLL_ERROR_MISUSE"
        /\ (call'.res \in NullCodes
              \/ (call'.op = "encoder_poll"
                    /\ call'.res = "HSER_POLL_ERROR_MISUSE"))
              => /\ call'.n = 0
                 /\ UNCHANGED <<hse, hsd, sunk, comp, dsunk, decomp>> ]_vars

\* a poll with no room for output came while the encoder had a window to
\* work on
ArgumentMisuseSeen ==
    /\ call.op = "encoder_poll" /\ call.size = 0
    /\ call.res = "HSER_POLL_ERROR_MISUSE"
    /\ hse.state = HSES_FILLED /\ hse.input_size > 0

\* C26: whenever the decoder is in YIELD_BACKREF, output_index is in
\* 1 .. 2^W and output_count is in 1 .. 2^L, whatever bytes were sunk and
\* in whatever chunks.
DecoderBackrefBounds ==
    hsd.state = HSDS_YIELD_BACKREF =>
        /\ hsd.output_index \in 1 .. 2 ^ hsd.window_sz2
        /\ hsd.output_count \in 1 .. 2 ^ hsd.lookahead_sz2

(***************************************************************************)
(* Claims about the turns of the encoder's poll loop (SpecEncStep).        *)
(***************************************************************************)
\* the encoder is inside poll, in SEARCH, and the search buffer is not
\* exhausted: the next turn calls find_longest_match
Searching ==
    /\ pc = "polling"
    /\ hse.state = HSES_SEARCH
    /\ hse.match_scan_index
         < hse.input_size - (IF is_finishing(hse) THEN 0
                             ELSE 2 ^ hse.lookahead_sz2)

\* the scan position, the lowest candidate and the cap of that search
Needle == (2 ^ hse.window_sz2) + hse.match_scan_index
SearchStart ==
    IF backlog_is_filled(hse) THEN Needle - (2 ^ hse.window_sz2) + 1
    ELSE IF backlog_is_partial(hse)
    THEN Max(Needle - (2 ^ hse.window_sz2) + 1, 2 ^ hse.lookahead_sz2)
    ELSE 2 ^ hse.window_sz2
SearchMaxLen == Min(2 ^ hse.lookahead_sz2, hse.input_size - hse.match_scan_index)
\* the number of bytes, at most SearchMaxLen, that the candidate at pos has
\* in common with the needle
CommonLen(pos) ==
    CHOOSE n \in 0 .. SearchMaxLen :
        /\ \A i \in 0 .. n - 1 : hse.buffer[pos + i] = hse.buffer[Needle + i]
        /\ n < SearchMaxLen => hse.buffer[pos + n] # hse.buffer[Needle + n]
BestLen ==
    CHOOSE n \in 0 .. SearchMaxLen :
        /\ \A pos \in SearchStart .. Needle - 1 : CommonLen(pos) <= n
        /\ n > 0 => \E pos \in SearchStart .. Needle - 1 : CommonLen(pos) = n
\* the candidate of the best length that is nearest to the needle
BestPos ==
    CHOOSE pos \in SearchStart .. Needle - 1 :
        /\ CommonLen(pos) = BestLen
        /\ \A q \in pos + 1 .. Needle - 1 : CommonLen(q) < BestLen

\* C28: a search reports no match (and the byte goes out as a literal)
\* unless some candidate in start .. needle-1 has more than 2 bytes in
\* common with the needle; otherwise it reports the greatest common length
\* over the candidates, capped at maxlen, and the distance of the nearest
\* candidate of that length.
LongestMatchSelection ==
    [][Searching =>
         IF BestLen > 2
         THEN /\ hse'.match_length = BestLen
              /\ hse'.match_pos = Needle - BestPos
              /\ hse'.match_scan_index = hse.match_scan_index
         ELSE /\ hse'.match_length = 0
              /\ hse'.match_scan_index = hse.match_scan_index + 1
              /\ FLAG_HAS_LITERAL \in hse'.flags]_vars

\* a search has just chosen, of two candidates of the best length, the
\* nearer one, the best length being below the cap
LongestMatchSelectionSeen ==
    /\ pc = "polling" /\ hse.state = HSES_YIELD_TAG_BIT
    /\ hse.match_length > 2 /\ hse.match_length < SearchMaxLen
    /\ \E pos \in SearchStart .. Needle - 1 :
          /\ pos < Needle - hse.match_pos
          /\ CommonLen(pos) = hse.match_length

\* C29: every back-reference the encoder emits has match_pos in 1 .. 2^W
\* and match_length in 3 .. 2^L, whether the backlog is absent, partial or
\* filled.
EmittedBackrefBounds ==
    (pc = "polling" /\ hse.state \in {HSES_YIELD_BR_INDEX, HSES_YIELD_BR_LENGTH}) =>
        /\ hse.match_pos \in 1 .. 2 ^ hse.window_sz2
        /\ hse.match_length \in 3 .. 2 ^ hse.lookahead_sz2

\* the index of a back-reference is going out, the backlog being filled
EmittedBackrefBoundsSeen ==
    /\ pc = "polling" /\ hse.state = HSES_YIELD_BR_INDEX
    /\ backlog_is_filled(hse) /\ hse.lookahead_sz2 < hse.window_sz2
    /\ hse.match_pos > hse.match_scan_index
    /\ hse.match_length \in 3 .. 2 ^ hse.lookahead_sz2

\* C30: a turn in SAVE_BACKLOG without IS_FINISHING ends in NOT_FULL with
\* match_scan_index = 0 and input_size less by the bytes shifted out of
\* the active half; what is left in the active half are the last
\* input_size bytes sunk, in stream order from its start, and the bytes of
\* the stream before them lie directly below, in the backlog half; the
\* backlog flag goes from none to PARTIAL, and from PARTIAL to FILLED.
BacklogShift ==
    [][(pc = "polling" /\ hse.state = HSES_SAVE_BACKLOG /\ ~is_finishing(hse)) =>
         LET base == 2 ^ hse.window_sz2
             left == hse.input_size - hse.match_scan_index
         IN /\ hse'.state = HSES_NOT_FULL
            /\ hse'.match_scan_index = 0
            /\ hse'.input_size = left
            /\ \A i \in 0 .. left - 1 :
                  hse'.buffer[base + i] = X[sunk - left + i + 1]
            /\ \A k \in 1 .. Min(base, sunk - left) :
                  hse'.buffer[base - k] = X[sunk - left - k + 1]
            /\ hse'.flags = hse.flags \cup
                              (IF FLAG_BACKLOG_IS_PARTIAL \in hse.flags
                               THEN {FLAG_BACKLOG_IS_FILLED}
                               ELSE {FLAG_BACKLOG_IS_PARTIAL})]_vars

\* the second shift has been made: bytes are left in the active half, the
\* backlog is filled and holds bytes of both windows
BacklogShiftSeen ==
    /\ pc = "polling" /\ hse.state = HSES_NOT_FULL
    /\ backlog_is_filled(hse) /\ hse.lookahead_sz2 < hse.window_sz2
    /\ hse.match_scan_index = 0
    /\ hse.input_size \in 1 .. (2 ^ hse.window_sz2) - 1
    /\ sunk - hse.input_size > 2 ^ hse.window_sz2

(***************************************************************************)
(* Claims about the turns of the decoder's poll loop (SpecDecStep).        *)
(***************************************************************************)
\* C27: from CHECK_FOR_MORE_INPUT the decoder moves to INPUT_AVAILABLE if
\* the input region has bytes or current_byte has unread bits, and to EMPTY
\* only when neither holds.
CheckForMoreInput ==
    [][(pc = "polling" /\ hsd.state = HSDS_CHECK_FOR_MORE_INPUT) =>
          hsd'.state = IF hsd.input_size > 0 \/ hsd.bit_index # 0
                       THEN HSDS_INPUT_AVAILABLE ELSE HSDS_EMPTY]_vars

\* C27, amended: from CHECK_FOR_MORE_INPUT the decoder moves to
\* INPUT_AVAILABLE if the input region has bytes and to EMPTY if it has
\* none, whether or not current_byte has unread bits; the turn changes
\* nothing else, so the unread bits are still there after the next sink.
CheckForMoreInputBytes ==
    [][(pc = "polling" /\ hsd.state = HSDS_CHECK_FOR_MORE_INPUT) =>
          hsd' = [hsd EXCEPT !.state = IF hsd.input_size > 0
                                       THEN HSDS_INPUT_AVAILABLE
                                       ELSE HSDS_EMPTY]]_vars

\* inside poll, the decoder has just moved to EMPTY with unread bits in
\* current_byte
CheckForMoreInputBytesSeen ==
    /\ pc = "polling"
    /\ hsd.state = HSDS_EMPTY
    /\ hsd.input_size = 0 /\ hsd.bit_index # 0
    /\ hist.oi.buf # <<>>

(***************************************************************************)
(* Claims about the bit requests of the decoder (SpecBits).                *)
(***************************************************************************)
\* C25: a request for k bits made when fewer than k unread bits have been
\* sunk signals underflow, and a request made when k unread bits have been
\* sunk, a retry after an underflow included, returns the next k bits of
\* the stream.
BitRequestRetry ==
    call.op = "get_bits" =>
        IF call.n + call.size <= 8 * dsunk
        THEN call.res = [hi |-> 0, lo |-> StreamBits(comp, call.n, call.size)]
        ELSE call.res = MINUS_ONE

(***************************************************************************)
(* Claims about reset (SpecReset).                                         *)
(***************************************************************************)
\* C23: after reset, an encoder (a decoder) returns the same codes, counts
\* and bytes as a freshly allocated instance of the same configuration
\* under the same calls, and keeps W, L (and the input buffer size).
ResetEquivalence ==
    /\ hist.same
    /\ pc = "enc_after" =>
          /\ hse.window_sz2 = hist.twin.window_sz2
          /\ hse.lookahead_sz2 = hist.twin.lookahead_sz2
    /\ pc = "dec_after" =>
          /\ hsd.window_sz2 = hist.twin.window_sz2
          /\ hsd.lookahead_sz2 = hist.twin.lookahead_sz2
          /\ hsd.input_buffer_size = hist.twin.input_buffer_size

\* an encoder that was reset after it had emitted a back-reference has been
\* taken to DONE again, with output
ResetEquivalenceSeen ==
    /\ pc = "enc_after" /\ hist.same
    /\ hse.state = HSES_DONE /\ hist.twin.state = HSES_DONE
    /\ hse.match_pos # hist.twin.match_pos
    /\ comp # <<>>

(***************************************************************************)
(* Claims about the moment finish is called (SpecTiming).                  *)
(***************************************************************************)
\* C33: the encoder's whole output for X is the same bytes whether finish
\* is called right after the last sink or only after poll has returned
\* EMPTY for the last window: it is the output of the driver that finishes
\* at once.
FinishTimingSameOutput ==
    pc = "done" => comp = compress(hse.window_sz2, hse.lookahead_sz2, X)

\* the bytes a decoder of the same (W, L) makes of a whole stream
expand(window_sz2, lookahead_sz2, stream) ==
    LET d == heatshrink_decoder_alloc(BigCap, window_sz2, lookahead_sz2)
        s == heatshrink_decoder_sink(d, stream)
    IN heatshrink_decoder_poll(s.hsd, BigCap).out

\* C33, amended: under either timing the output decodes to X; it is the
\* same bytes as the output of the driver that finishes at once when the
\* last sink left the window unfilled.  When the last sink filled the
\* window, polling before finish saves a partial backlog, the search then
\* starts no lower than offset 2^L, and the output can be other bytes.
FinishTimingRoundTrip ==
    pc = "done" =>
        /\ expand(hse.window_sz2, hse.lookahead_sz2, comp) = X
        /\ ~hist.full => comp = compress(hse.window_sz2, hse.lookahead_sz2, X)

\* finish was called after poll had returned EMPTY for a window the last
\* sink filled, and the output is other bytes that decode to X
FinishTimingRoundTripSeen ==
    /\ pc = "done" /\ hist.late /\ hist.full
    /\ comp # compress(hse.window_sz2, hse.lookahead_sz2, X)
    /\ expand(hse.window_sz2, hse.lookahead_sz2, comp) = X

(***************************************************************************)
(* Claims about sinks of length 0 (SpecDecZero).                           *)
(***************************************************************************)
\* C34: a decoder sink of 0 bytes changes nothing, so after it the bytes
\* decoded are still a prefix of X, and are X once the whole stream is
\* sunk and a poll has returned EMPTY.
ZeroLengthSinkNoOp ==
    hist.zero =>
        /\ IsPrefix(decomp, X)
        /\ StreamDrained => decomp = X

(***************************************************************************)
(* Claims about EMPTY and finish under a free caller (Spec).               *)
(***************************************************************************)
\* C35: when poll returns EMPTY and finish has not been called, the
\* encoder is in NOT_FULL and a sink with valid arguments returns OK; when
\* poll returns EMPTY and finish has been called, the encoder is in DONE.
SinkAfterEmpty ==
    (call.op = "encoder_poll" /\ call.res = "HSER_POLL_EMPTY") =>
        IF is_finishing(hse)
        THEN hse.state = HSES_DONE
        ELSE /\ hse.state = HSES_NOT_FULL
             /\ \A b \in Alphabet :
                   heatshrink_encoder_sink(hse, <<b>>).res = "HSER_SINK_OK"

\* C37: whenever IS_FINISHING is set the encoder is not in NOT_FULL: after
\* finish it never asks for input again.
NoNotFullAfterFinish ==
    is_finishing(hse) => hse.state # HSES_NOT_FULL

\* finish was called on a window that had been shifted into the backlog,
\* and the polls after it have gone through SAVE_BACKLOG to DONE
NoNotFullAfterFinishSeen ==
    /\ is_finishing(hse) /\ hse.state = HSES_DONE
    /\ call.op = "encoder_poll"
    /\ backlog_is_partial(hse) \/ backlog_is_filled(hse)
    /\ sunk > 2 ^ hse.window_sz2

(***************************************************************************)
(* Claims about the final literal (SpecEncStep).                           *)
(***************************************************************************)
\* C39: at every turn of the poll loop, HAS_LITERAL is clear in
\* SAVE_BACKLOG, ON_FINAL_LITERAL is clear, and match_length is 0 in
\* YIELD_LITERAL; no turn goes from YIELD_LITERAL to YIELD_TAG_BIT.
FinalLiteralNeverTaken ==
    /\ [](/\ hse.state = HSES_SAVE_BACKLOG => ~has_literal(hse)
          /\ ~on_final_literal(hse)
          /\ hse.state = HSES_YIELD_LITERAL => hse.match_length = 0)
    /\ [][hse.state = HSES_YIELD_LITERAL
              => hse'.state # HSES_YIELD_TAG_BIT]_vars

\* inside a poll made after finish, the search has ended right after a
\* literal and the encoder is in SAVE_BACKLOG
FinalLiteralNeverTakenSeen ==
    /\ pc = "polling" /\ hse.state = HSES_SAVE_BACKLOG
    /\ is_finishing(hse)
    /\ hse.match_length = 0 /\ hse.match_scan_index = hse.input_size
    /\ hse.input_size > 0

(***************************************************************************)
(* Claims about the reach of back-references (SpecEncStep).                *)
(***************************************************************************)
\* the bytes of the stream that were encoded before the scan position
EncodedBefore == sunk - hse.input_size + hse.match_scan_index

\* C36: the distance of every back-reference the encoder emits is at most
\* the number of input bytes encoded before it, whether the backlog is
\* absent, partial or filled.
BackrefInsideStream ==
    (pc = "polling" /\ hse.state = HSES_YIELD_BR_INDEX) =>
        hse.match_pos <= EncodedBefore

(***************************************************************************)
(* Claims about the end of a poll call (SpecPolls).                        *)
(***************************************************************************)
\* C38: a poll call of the encoder or of the decoder that has entered its
\* loop, with an output buffer of 1 byte or more, returns after finitely
\* many turns.
PollTerminates == (pc = "polling") ~> (pc = "caller")

(***************************************************************************)
(* Claims about the construction of the index (SpecIdx).                   *)
(***************************************************************************)
\* the last offset before i that holds the byte at i, MATCH_NOT_FOUND if
\* there is none
PrevSame(buf, i) ==
    LET same == {j \in 0 .. i - 1 : buf[j] = buf[i]}
    IN IF same = {} THEN MATCH_NOT_FOUND
       ELSE CHOOSE j \in same : \A k \in same : k <= j

\* C40: when the encoder is in FILLED, with any valid W, 2 * 2^W and
\* 2^W + input_size fit into 16 bits, and do_indexing leaves in every
\* entry below 2^W + input_size the last earlier offset of the same byte.
IndexNoWrap ==
    (use_index(hse) /\ hse.state = HSES_FILLED) =>
        /\ U16(2 * get_input_buffer_size(hse)) = 2 * get_input_buffer_size(hse)
        /\ U16(get_input_offset(hse) + hse.input_size)
              = get_input_offset(hse) + hse.input_size
        /\ Let(do_indexing(hse).search_index,
               LAMBDA index :
                 \A i \in 0 .. get_input_offset(hse) + hse.input_size - 1 :
                    index[i] = PrevSame(hse.buffer, i))

====
